---------------------------- MODULE Spec2Model ----------------------------
(***************************************************************************)
(* Model of src/media-gallery.js: the Audio Controller, the video          *)
(* load/unload pipeline (fetch -> blob -> playback), the photo interaction  *)
(* state machine with its drag session, and the viewport observers.         *)
(*                                                                          *)
(* The program state is the part of the DOM and of the script's closures    *)
(* that the handlers read: video.muted / volume / paused / src, the         *)
(* data-lazy-src and data-video-src markers, the loading bar of a photo,    *)
(* the photo dataset (state, currentX, ...), loadedVideos, pendingFetches,   *)
(* audioController.activeVideo and dragState.  Callbacks the browser still  *)
(* owes the script (fetch continuations, animation frames of a fade, the    *)
(* canplay listener, the 350 ms pause timer) are state as well.  Purely     *)
(* visual writes (style.transform, class names, icons, z-index) are read    *)
(* by no handler and are not modelled.                                      *)
(*                                                                          *)
(* Every handler is one action.  Its body is written as a function from     *)
(* the world record (all script state) to the world record, composed in     *)
(* the order of the source's statements.                                    *)
(*                                                                          *)
(* Scheduling.  The host is single-threaded: a handler runs to its end.     *)
(* AbortController.abort() rejects the fetch promise synchronously, so the  *)
(* .catch of an aborted fetch runs at the microtask checkpoint that         *)
(* follows the handler, before any other event is dispatched: while an      *)
(* aborted fetch awaits its continuation, no other action is enabled.       *)
(* Completion and failure of a fetch, animation frames, canplay and timers  *)
(* arrive at any time between handlers.                                     *)
(***************************************************************************)
EXTENDS Integers, FiniteSets, Sequences, TLC

(***************************************************************************)
(* The page: two gallery photos that carry a video, one gallery photo that  *)
(* carries an image, and one hero video outside any gallery.                *)
(***************************************************************************)
VideoPhotos == {"p1", "p2"}
ImagePhotos == {"p3"}
Photos == VideoPhotos \cup ImagePhotos
GalleryVideos == {"g1", "g2"}
HeroVideos == {"h1"}
Videos == GalleryVideos \cup HeroVideos

NoPhoto == "nophoto"
NoVideo == "novideo"
NoUrl == "nourl"

\* photo.querySelector('video')
VideoOf(p) == CASE p = "p1" -> "g1" [] p = "p2" -> "g2" [] OTHER -> NoVideo
\* video.closest('.pg-photo')
PhotoOf(v) == CASE v = "g1" -> "p1" [] v = "g2" -> "p2" [] OTHER -> NoPhoto
\* the URL the markup / the item gives the video (data-lazy-src)
UrlOf(v) == CASE v = "g1" -> "a/video.mp4" [] v = "g2" -> "a/02.mp4" [] OTHER -> "hero.mp4"

(***************************************************************************)
(* CONFIG.  Scales are in hundredths (hoverScale 2.55 is 255).              *)
(***************************************************************************)
hoverScale == 255
clickedScale == 500
putDownDrift == 31
maxDriftFromOrigin == 32
dragThreshold == 5

(***************************************************************************)
(* Bounds of the model.                                                     *)
(***************************************************************************)
\* fetches whose continuation has not run yet, over all videos
MaxFetches == 2
\* fades (in or out) whose last animation frame has not run yet
MaxFades == 3
\* pause timers not fired yet
MaxTimers == 1

VARIABLES
  muted,          \* video.muted
  volume,         \* video.volume: "zero", "part" (strictly between), "full"
  paused,         \* video.paused
  src,            \* video.src: "none" or "blob"
  lazySrc,        \* video.dataset.lazySrc: NoUrl when absent
  videoSrc,       \* video.dataset.videoSrc: NoUrl when absent
  canplay,        \* the browser will fire canplay on the video
  bar,            \* .pg-loading-bar of a photo: "none", "progress", "error"
  loadedVideos,   \* the Set loadedVideos
  pendingFetches, \* video -> the Map pendingFetches has an entry; its AbortController
                  \* is that of the newest fetch of the video, in flight, not aborted
  orphanFetches,  \* video -> fetches in flight, not aborted, whose AbortController
                  \* is no longer in pendingFetches
  abortedFetches, \* video -> aborted fetches whose .catch has yet to run
  activeVideo,    \* audioController.activeVideo
  fadeIns,        \* video -> fade-in tick chains in flight
  fadeOuts,       \* video -> fade-out tick chains in flight
  timers,         \* video -> setTimeout(pauseVideo, 350) not fired yet
  state,          \* photo.dataset.state
  pos,            \* photo.dataset: currentX, currentY, currentRotation, hoverX, hoverY, dragX, dragY
  justDismissed,  \* photo.dataset.justDismissed present
  dragState,      \* the global dragState
  over,           \* the photo the pointer is over, NoPhoto when none
  button,         \* the mouse button is held down
  mobile,         \* window.matchMedia(MOBILE_QUERY).matches
  inMargin,       \* hero video -> last isIntersecting of heroPlaybackObserver
  halfVisible,    \* video -> last intersectionRatio >= 0.5 of the audio observers
  last,           \* the handler that ran last (history, read by no handler)
  audioOp,        \* the last Audio Controller call (history, read by no handler)
  sessionLog,     \* what the pointer did since the last pointer-down that began a
                  \* drag session (history, read by no handler)
  geo,            \* the last call of constrainToViewport made on its own: its
                  \* arguments and its result
  parsed,         \* the last call of parseItemData made on its own: its argument
                  \* and what it returned or threw
  boot            \* the last run of init() on a page: the page and what the run
                  \* left initialized

vars == <<muted, volume, paused, src, lazySrc, videoSrc, canplay, bar, loadedVideos,
          pendingFetches, orphanFetches, abortedFetches, activeVideo, fadeIns, fadeOuts,
          timers, state, pos, justDismissed, dragState, over, button, mobile, inMargin,
          halfVisible, last, audioOp, sessionLog, geo, parsed, boot>>

\* The script state as one record; cap is raised when a handler would exceed a bound.
World ==
  [muted |-> muted, volume |-> volume, paused |-> paused, src |-> src,
   lazySrc |-> lazySrc, videoSrc |-> videoSrc, canplay |-> canplay, bar |-> bar,
   loadedVideos |-> loadedVideos, pendingFetches |-> pendingFetches,
   orphanFetches |-> orphanFetches, abortedFetches |-> abortedFetches,
   activeVideo |-> activeVideo, fadeIns |-> fadeIns,
   fadeOuts |-> fadeOuts, timers |-> timers, state |-> state, pos |-> pos,
   justDismissed |-> justDismissed, dragState |-> dragState, audioOp |-> audioOp,
   cap |-> FALSE]

Commit(w) ==
  /\ ~w.cap
  /\ muted' = w.muted
  /\ volume' = w.volume
  /\ paused' = w.paused
  /\ src' = w.src
  /\ lazySrc' = w.lazySrc
  /\ videoSrc' = w.videoSrc
  /\ canplay' = w.canplay
  /\ bar' = w.bar
  /\ loadedVideos' = w.loadedVideos
  /\ pendingFetches' = w.pendingFetches
  /\ orphanFetches' = w.orphanFetches
  /\ abortedFetches' = w.abortedFetches
  /\ activeVideo' = w.activeVideo
  /\ fadeIns' = w.fadeIns
  /\ fadeOuts' = w.fadeOuts
  /\ timers' = w.timers
  /\ state' = w.state
  /\ pos' = w.pos
  /\ justDismissed' = w.justDismissed
  /\ dragState' = w.dragState
  /\ audioOp' = w.audioOp

(***************************************************************************)
(* Audio Controller                                                         *)
(***************************************************************************)
RECURSIVE SumOver(_, _)
SumOver(f, S) == IF S = {} THEN 0
                 ELSE LET x == CHOOSE y \in S : TRUE IN f[x] + SumOver(f, S \ {x})

FadesInFlight(w) == SumOver(w.fadeIns, Videos) + SumOver(w.fadeOuts, Videos)

\* fadeInAudio: volume = 0, muted = false, first tick requested
fadeInAudio(w, v) ==
  [w EXCEPT !.volume[v] = "zero", !.muted[v] = FALSE,
            !.fadeIns[v] = @ + 1,
            !.cap = @ \/ FadesInFlight(w) >= MaxFades]

\* fadeOutAudio: a silent video is muted at once, otherwise the first tick is requested
fadeOutAudio(w, v) ==
  IF w.volume[v] = "zero"
  THEN [w EXCEPT !.muted[v] = TRUE]
  ELSE [w EXCEPT !.fadeOuts[v] = @ + 1,
                 !.cap = @ \/ FadesInFlight(w) >= MaxFades]

\* the last animation frame of fadeInAudio: progress = 1
fadeInLastTick(w, v) == [w EXCEPT !.volume[v] = "full", !.fadeIns[v] = @ - 1]

\* the last animation frame of fadeOutAudio: muted = true, volume = 1
fadeOutLastTick(w, v) ==
  [w EXCEPT !.muted[v] = TRUE, !.volume[v] = "full", !.fadeOuts[v] = @ - 1]

\* every fade in flight runs to its last frame
RECURSIVE settle(_)
settle(w) ==
  IF \E v \in Videos : w.fadeIns[v] > 0
  THEN settle(fadeInLastTick(w, CHOOSE v \in Videos : w.fadeIns[v] > 0))
  ELSE IF \E v \in Videos : w.fadeOuts[v] > 0
  THEN settle(fadeOutLastTick(w, CHOOSE v \in Videos : w.fadeOuts[v] > 0))
  ELSE w

\* Faulty variant of setAudioActive: the previous active video is not faded out
setAudioActive_keepPrevious(w, v) ==
  fadeInAudio([w EXCEPT !.activeVideo = v,
                        !.audioOp = [op |-> "activate", video |-> v,
                                     prev |-> w.activeVideo]], v)

setAudioActive(w, v) ==
  LET w1 == IF w.activeVideo # NoVideo /\ w.activeVideo # v
            THEN fadeOutAudio(w, w.activeVideo) ELSE w
      w2 == [w1 EXCEPT !.activeVideo = v,
                       !.audioOp = [op |-> "activate", video |-> v, prev |-> w.activeVideo]]
  IN fadeInAudio(w2, v)

\* Faulty variant of setAudioInactive: a video already muted is activated
setAudioInactive_toggles(w, v) ==
  IF w.muted[v] THEN setAudioActive(w, v)
  ELSE LET w1 == [fadeOutAudio(w, v) EXCEPT
                    !.audioOp = [op |-> "deactivate", video |-> v, prev |-> w.activeVideo]]
       IN IF w1.activeVideo = v THEN [w1 EXCEPT !.activeVideo = NoVideo] ELSE w1

\* Faulty variant of setAudioInactive: the active reference is kept
setAudioInactive_keepActive(w, v) ==
  [fadeOutAudio(w, v) EXCEPT
     !.audioOp = [op |-> "deactivate", video |-> v, prev |-> w.activeVideo]]

setAudioInactive(w, v) ==
  LET w1 == [fadeOutAudio(w, v) EXCEPT
               !.audioOp = [op |-> "deactivate", video |-> v, prev |-> w.activeVideo]]
  IN IF w1.activeVideo = v THEN [w1 EXCEPT !.activeVideo = NoVideo] ELSE w1

toggleAudio(w, v) ==
  IF w.muted[v] THEN setAudioActive(w, v) ELSE setAudioInactive(w, v)

(***************************************************************************)
(* Shared video utilities                                                   *)
(***************************************************************************)
createLoadingBar(w, p) ==
  IF w.bar[p] = "none" THEN [w EXCEPT !.bar[p] = "progress"] ELSE w

removeLoadingBar(w, p) == [w EXCEPT !.bar[p] = "none"]

\* Faulty variant of play: playing a video unmutes it
play_unmuted(w, v) == [w EXCEPT !.paused[v] = FALSE, !.muted[v] = FALSE]

\* video.play(): the rejection of the returned promise is swallowed
play(w, v) == [w EXCEPT !.paused[v] = FALSE]

\* controller.abort() followed by pendingFetches.delete(video)
abortPending(w, v) ==
  IF w.pendingFetches[v]
  THEN [w EXCEPT !.abortedFetches[v] = @ + 1, !.pendingFetches[v] = FALSE]
  ELSE w

\* Faulty variant of unloadVideo: no early return for a video with audio
unloadVideo_anyVideo(w, v) ==
  LET w1 == abortPending(w, v)
      w2 == [w1 EXCEPT !.paused[v] = TRUE, !.src[v] = "none", !.canplay[v] = FALSE,
                       !.loadedVideos = @ \ {v}]
      w3 == IF w2.videoSrc[v] # NoUrl
            THEN [w2 EXCEPT !.lazySrc[v] = w2.videoSrc[v]] ELSE w2
  IN IF PhotoOf(v) # NoPhoto THEN removeLoadingBar(w3, PhotoOf(v)) ELSE w3

unloadVideo(w, v) ==
  IF ~w.muted[v] THEN w
  ELSE
    LET w1 == abortPending(w, v)
        \* pause, removeAttribute('src'), load(), loadedVideos.delete
        w2 == [w1 EXCEPT !.paused[v] = TRUE, !.src[v] = "none", !.canplay[v] = FALSE,
                         !.loadedVideos = @ \ {v}]
        w3 == IF w2.videoSrc[v] # NoUrl
              THEN [w2 EXCEPT !.lazySrc[v] = w2.videoSrc[v]] ELSE w2
    IN IF PhotoOf(v) # NoPhoto THEN removeLoadingBar(w3, PhotoOf(v)) ELSE w3

RECURSIVE unloadEach(_, _)
unloadEach(w, S) ==
  IF S = {} THEN w
  ELSE LET v == CHOOSE x \in S : TRUE IN unloadEach(unloadVideo(w, v), S \ {v})

unloadAllVideosExcept(w, keepVideo) ==
  unloadEach(w, {v \in w.loadedVideos : v # keepVideo})

\* fetches of v in flight that were not aborted
LiveFetches(w, v) == (IF w.pendingFetches[v] THEN 1 ELSE 0) + w.orphanFetches[v]

RECURSIVE CountOver(_, _)
CountOver(w, S) ==
  IF S = {} THEN 0
  ELSE LET v == CHOOSE x \in S : TRUE
       IN LiveFetches(w, v) + w.abortedFetches[v] + CountOver(w, S \ {v})

\* new AbortController(), pendingFetches.set(video, ...), fetch(src, {signal}).
\* set() replaces an entry whose fetch then stays in flight without a handle;
\* loadVideo leaves none, abortPending has deleted it.
startFetch(w, v) ==
  [w EXCEPT !.pendingFetches[v] = TRUE,
            !.orphanFetches[v] = IF w.pendingFetches[v] THEN @ + 1 ELSE @,
            !.cap = @ \/ CountOver(w, Videos) >= MaxFetches]

\* pendingFetches.delete(video) run by the continuation of some fetch of v:
\* an entry that belongs to another fetch of v is deleted all the same
deleteEntry(w, v) ==
  IF w.pendingFetches[v]
  THEN [w EXCEPT !.pendingFetches[v] = FALSE, !.orphanFetches[v] = @ + 1]
  ELSE w

loadVideo(w, v) ==
  LET source == IF w.lazySrc[v] # NoUrl THEN w.lazySrc[v] ELSE w.videoSrc[v]
  IN IF source = NoUrl THEN w
     ELSE
       LET w1 == [w EXCEPT !.videoSrc[v] = source]
           w2 == unloadAllVideosExcept(w1, v)
       IN IF w2.src[v] = "blob" THEN play(w2, v)
          ELSE
            LET w3 == abortPending(w2, v)
                w4 == IF PhotoOf(v) # NoPhoto THEN createLoadingBar(w3, PhotoOf(v)) ELSE w3
            IN startFetch(w4, v)

\* Faulty variant of pauseVideo: the video is left playing
pauseVideo_never(w, v) == w

pauseVideo(w, v) == IF ~w.paused[v] THEN [w EXCEPT !.paused[v] = TRUE] ELSE w

playVideo(w, v) == IF w.paused[v] THEN play(w, v) ELSE w


(***************************************************************************)
(* Gallery mode: geometry                                                   *)
(***************************************************************************)
\* window.innerWidth / innerHeight
Window == [innerWidth |-> 1008, innerHeight |-> 608]

\* offsetWidth / offsetHeight of a photo and its page offset less the scroll
\* (the sum of offsetLeft / offsetTop over the offsetParent chain)
Geometry(p) ==
  CASE p = "p1" -> [offsetWidth |-> 200, offsetHeight |-> 120, baseLeft |-> 0, baseTop |-> 0]
    [] p = "p2" -> [offsetWidth |-> 200, offsetHeight |-> 120, baseLeft |-> 404, baseTop |-> 244]
    [] OTHER    -> [offsetWidth |-> 200, offsetHeight |-> 120, baseLeft |-> 808, baseTop |-> 488]

\* a displacement (dx, dy) is longer than dragThreshold
Far(dx, dy) == dx * dx + dy * dy > dragThreshold * dragThreshold

Max(a, b) == IF a >= b THEN a ELSE b
Min(a, b) == IF a <= b THEN a ELSE b

\* Faulty variant of clamp: the bounds are applied in the other order
clamp_minLast(val, min, max) == Min(max, Max(min, val))

clamp(val, min, max) == Max(min, Min(max, val))

\* Faulty variant of constrainToViewport: the centre is taken with the current
\* translation applied (as getBoundingClientRect would give it)
constrainToViewport_transformedCenter(photo, win, x, y, scale) ==
  LET scaledHalfWidth == (photo.offsetWidth * scale) \div 200
      scaledHalfHeight == (photo.offsetHeight * scale) \div 200
      centerX == photo.baseLeft + x + photo.offsetWidth \div 2
      centerY == photo.baseTop + y + photo.offsetHeight \div 2
      minX == scaledHalfWidth - centerX
      maxX == win.innerWidth - centerX - scaledHalfWidth
      minY == scaledHalfHeight - centerY
      maxY == win.innerHeight - centerY - scaledHalfHeight
  IN [x |-> Max(minX, Min(maxX, x)), y |-> Max(minY, Min(maxY, y))]

\* scale is in hundredths; the geometries used keep every quotient exact
constrainToViewport(photo, win, x, y, scale) ==
  LET scaledHalfWidth == (photo.offsetWidth * scale) \div 200
      scaledHalfHeight == (photo.offsetHeight * scale) \div 200
      centerX == photo.baseLeft + photo.offsetWidth \div 2
      centerY == photo.baseTop + photo.offsetHeight \div 2
      minX == scaledHalfWidth - centerX
      maxX == win.innerWidth - centerX - scaledHalfWidth
      minY == scaledHalfHeight - centerY
      maxY == win.innerHeight - centerY - scaledHalfHeight
  IN [x |-> clamp(x, minX, maxX), y |-> clamp(y, minY, maxY)]

\* no call of constrainToViewport was made on its own yet
NoGeo == [op |-> "none", photo |-> Geometry("p1"), win |-> Window, scale |-> 100,
          x |-> 0, y |-> 0, out |-> [x |-> 0, y |-> 0]]

NoDrag ==
  [active |-> FALSE, photo |-> NoPhoto, startX |-> 0, startY |-> 0,
   offsetX |-> 0, offsetY |-> 0, hasDragged |-> FALSE, isFirstClick |-> FALSE]

(***************************************************************************)
(* Gallery mode: state transitions                                          *)
(***************************************************************************)
loadAndPlayGalleryVideo(w, p) ==
  IF VideoOf(p) = NoVideo THEN w ELSE loadVideo(w, VideoOf(p))

\* Faulty variant of enterHoverState: the video of the photo is not loaded
enterHoverState_noLoad(w, p) ==
  IF mobile THEN w
  ELSE IF w.state[p] # "normal" THEN w
  ELSE
    LET constrained == constrainToViewport(Geometry(p), Window, w.pos[p].currentX,
                                           w.pos[p].currentY, hoverScale)
    IN [w EXCEPT !.pos[p].hover = <<constrained.x, constrained.y>>,
                 !.state[p] = "hover"]

\* Faulty variant of enterHoverState: no early return on a mobile viewport
enterHoverState_noMobileGuard(w, p) ==
  IF w.state[p] # "normal" THEN w
  ELSE
    LET constrained == constrainToViewport(Geometry(p), Window, w.pos[p].currentX,
                                           w.pos[p].currentY, hoverScale)
        w1 == [w EXCEPT !.pos[p].hover = <<constrained.x, constrained.y>>,
                        !.state[p] = "hover"]
    IN loadAndPlayGalleryVideo(w1, p)

enterHoverState(w, p) ==
  IF mobile THEN w
  ELSE IF w.state[p] # "normal" THEN w
  ELSE
    LET constrained == constrainToViewport(Geometry(p), Window, w.pos[p].currentX,
                                           w.pos[p].currentY, hoverScale)
        w1 == [w EXCEPT !.pos[p].hover = <<constrained.x, constrained.y>>,
                        !.state[p] = "hover"]
    IN loadAndPlayGalleryVideo(w1, p)

\* Faulty variant of enterClickedState: the position is not constrained
enterClickedState_unconstrained(w, p) ==
  IF w.state[p] # "hover" THEN w ELSE [w EXCEPT !.state[p] = "clicked"]

enterClickedState(w, p) ==
  IF w.state[p] # "hover" THEN w
  ELSE
    LET constrained == constrainToViewport(Geometry(p), Window, w.pos[p].currentX,
                                           w.pos[p].currentY, clickedScale)
    IN [w EXCEPT !.state[p] = "clicked",
                 !.pos[p].currentX = constrained.x,
                 !.pos[p].currentY = constrained.y]

\* Faulty variant of enterNormalState: the new position is not clamped to the origin
enterNormalState_noClamp(w, p, jx, jy, rot) ==
  IF w.state[p] = "normal" THEN w
  ELSE
    LET video == VideoOf(p)
        audioActive == video # NoVideo /\ ~w.muted[video]
        w1 == IF ~audioActive /\ video # NoVideo THEN unloadVideo(w, video) ELSE w
    IN [w1 EXCEPT !.state[p] = "normal",
                  !.pos[p].currentX = w1.pos[p].currentX + jx,
                  !.pos[p].currentY = w1.pos[p].currentY + jy,
                  !.pos[p].currentRotation = rot]

\* Faulty variant of enterNormalState: the video of the photo is never unloaded
enterNormalState_noUnload(w, p, jx, jy, rot) ==
  IF w.state[p] = "normal" THEN w
  ELSE
    LET originX == w.pos[p].originX
        originY == w.pos[p].originY
        newX == clamp(w.pos[p].currentX + jx,
                      originX - maxDriftFromOrigin, originX + maxDriftFromOrigin)
        newY == clamp(w.pos[p].currentY + jy,
                      originY - maxDriftFromOrigin, originY + maxDriftFromOrigin)
    IN [w EXCEPT !.state[p] = "normal",
                 !.pos[p].currentX = newX,
                 !.pos[p].currentY = newY,
                 !.pos[p].currentRotation = rot]

\* jx, jy, rot are the three randomInRange draws
enterNormalState(w, p, jx, jy, rot) ==
  IF w.state[p] = "normal" THEN w
  ELSE
    LET video == VideoOf(p)
        audioActive == video # NoVideo /\ ~w.muted[video]
        w1 == IF ~audioActive /\ video # NoVideo THEN unloadVideo(w, video) ELSE w
        originX == w1.pos[p].originX
        originY == w1.pos[p].originY
        newX == clamp(w1.pos[p].currentX + jx,
                      originX - maxDriftFromOrigin, originX + maxDriftFromOrigin)
        newY == clamp(w1.pos[p].currentY + jy,
                      originY - maxDriftFromOrigin, originY + maxDriftFromOrigin)
    IN [w1 EXCEPT !.state[p] = "normal",
                  !.pos[p].currentX = newX,
                  !.pos[p].currentY = newY,
                  !.pos[p].currentRotation = rot]

\* the new dragState object has no isFirstClick (undefined, falsy) until the listener sets it
onPhotoMouseDown(w, p, clientX, clientY) ==
  IF w.state[p] # "clicked" THEN w
  ELSE [w EXCEPT !.dragState =
          [active |-> TRUE, photo |-> p, startX |-> clientX, startY |-> clientY,
           offsetX |-> w.pos[p].currentX, offsetY |-> w.pos[p].currentY,
           hasDragged |-> FALSE, isFirstClick |-> FALSE]]

\* Faulty variant of onDocumentMouseMove: the move that crosses the threshold sets
\* hasDragged and returns, only the moves after it are applied
onDocumentMouseMove_lateApply(w, clientX, clientY) ==
  IF ~w.dragState.active THEN w
  ELSE
    LET photo == w.dragState.photo
        dx == clientX - w.dragState.startX
        dy == clientY - w.dragState.startY
        far == dx * dx + dy * dy > dragThreshold * dragThreshold
    IN IF ~w.dragState.hasDragged
       THEN IF far THEN [w EXCEPT !.dragState.hasDragged = TRUE] ELSE w
       ELSE
         LET constrained == constrainToViewport(Geometry(photo), Window,
                               w.dragState.offsetX + dx, w.dragState.offsetY + dy,
                               clickedScale)
         IN [w EXCEPT !.pos[photo].drag = <<constrained.x, constrained.y>>]

onDocumentMouseMove(w, clientX, clientY) ==
  IF ~w.dragState.active THEN w
  ELSE
    LET photo == w.dragState.photo
        dx == clientX - w.dragState.startX
        dy == clientY - w.dragState.startY
        \* Math.sqrt(dx*dx + dy*dy) > dragThreshold
        far == dx * dx + dy * dy > dragThreshold * dragThreshold
    IN IF ~w.dragState.hasDragged /\ ~far THEN w
       ELSE
         LET constrained == constrainToViewport(Geometry(photo), Window,
                               w.dragState.offsetX + dx, w.dragState.offsetY + dy,
                               clickedScale)
         IN [w EXCEPT !.dragState.hasDragged = TRUE,
                      !.pos[photo].drag = <<constrained.x, constrained.y>>]

\* Faulty variant of onDocumentMouseUp: the dismissal forgets wasFirstClick
onDocumentMouseUp_anyClick(w, jx, jy, rot) ==
  IF ~w.dragState.active THEN w
  ELSE
    LET photo == w.dragState.photo
        wasDrag == w.dragState.hasDragged
        w1 == IF wasDrag /\ w.pos[photo].drag # <<>>
              THEN [w EXCEPT !.pos[photo].currentX = w.pos[photo].drag[1],
                             !.pos[photo].currentY = w.pos[photo].drag[2]]
              ELSE w
        w2 == [w1 EXCEPT !.dragState = NoDrag]
    IN IF ~wasDrag /\ w2.state[photo] = "clicked"
       THEN [enterNormalState(w2, photo, jx, jy, rot) EXCEPT !.justDismissed[photo] = TRUE]
       ELSE w2

onDocumentMouseUp(w, jx, jy, rot) ==
  IF ~w.dragState.active THEN w
  ELSE
    LET photo == w.dragState.photo
        wasDrag == w.dragState.hasDragged
        wasFirstClick == w.dragState.isFirstClick
        \* dataset.dragX || dataset.currentX
        w1 == IF wasDrag /\ w.pos[photo].drag # <<>>
              THEN [w EXCEPT !.pos[photo].currentX = w.pos[photo].drag[1],
                             !.pos[photo].currentY = w.pos[photo].drag[2]]
              ELSE w
        w2 == [w1 EXCEPT !.dragState = NoDrag]
    IN IF ~wasDrag /\ w2.state[photo] = "clicked" /\ ~wasFirstClick
       THEN [enterNormalState(w2, photo, jx, jy, rot) EXCEPT !.justDismissed[photo] = TRUE]
       ELSE w2

\* Faulty variant of onPhotoMouseLeave: the photo is put down during its own session
onPhotoMouseLeave_always(w, p, jx, jy, rot) == enterNormalState(w, p, jx, jy, rot)

\* Faulty variant of onPhotoMouseLeave: skipped during any drag session
onPhotoMouseLeave_anySession(w, p, jx, jy, rot) ==
  IF w.dragState.active THEN w ELSE enterNormalState(w, p, jx, jy, rot)

onPhotoMouseLeave(w, p, jx, jy, rot) ==
  IF w.dragState.active /\ w.dragState.photo = p THEN w
  ELSE enterNormalState(w, p, jx, jy, rot)

\* the listeners createPhotoElement registers on a photo
mouseenterListener(w, p) ==
  IF w.justDismissed[p] THEN w ELSE enterHoverState(w, p)

mouseleaveListener(w, p, jx, jy, rot) ==
  onPhotoMouseLeave([w EXCEPT !.justDismissed[p] = FALSE], p, jx, jy, rot)

\* Faulty variant of the mousedown listener: the branches are not exclusive, a
\* just-dismissed photo that was brought to hover falls through to the hover branch
mousedownListener_fallThrough(w, p, clientX, clientY) ==
  LET w1 == IF w.state[p] = "normal" /\ w.justDismissed[p]
            THEN enterHoverState([w EXCEPT !.justDismissed[p] = FALSE], p)
            ELSE w
  IN IF w1.state[p] = "hover"
     THEN [onPhotoMouseDown(enterClickedState(w1, p), p, clientX, clientY)
             EXCEPT !.dragState.isFirstClick = TRUE]
     ELSE IF w1.state[p] = "clicked"
     THEN [onPhotoMouseDown(w1, p, clientX, clientY) EXCEPT !.dragState.isFirstClick = FALSE]
     ELSE w1

mousedownListener(w, p, clientX, clientY) ==
  IF w.state[p] = "normal" /\ w.justDismissed[p]
  THEN enterHoverState([w EXCEPT !.justDismissed[p] = FALSE], p)
  ELSE IF w.state[p] = "hover"
  THEN [onPhotoMouseDown(enterClickedState(w, p), p, clientX, clientY)
          EXCEPT !.dragState.isFirstClick = TRUE]
  ELSE IF w.state[p] = "clicked"
  THEN [onPhotoMouseDown(w, p, clientX, clientY) EXCEPT !.dragState.isFirstClick = FALSE]
  ELSE w


\* first: the pointer-down took the photo from hover to clicked; exceeded: a
\* mousemove since was farther than dragThreshold from the pointer-down point;
\* from: the position of the photo when the pointer-down handler returned;
\* tentative: the last position a mousemove of the session gave the photo
NoLog == [first |-> FALSE, exceeded |-> FALSE, down |-> <<0, 0>>,
          from |-> <<0, 0>>, tentative |-> <<>>]

(***************************************************************************)
(* Gallery mode: item descriptors.  A JavaScript string is the sequence of   *)
(* its characters; undefined is a value no string equals.  The center field  *)
(* of a descriptor is copied and takes no part in what follows.              *)
(***************************************************************************)
Undefined == <<"undefined">>
NoType == "undefined"

\* a string or undefined as a condition: undefined and "" are falsy
Truthy(s) == s # Undefined /\ s # <<>>

NoItem == [type |-> NoType, src |-> Undefined, thumb |-> Undefined, preview |-> Undefined]

\* the values an entry of data-images can be: a string, an array of strings, an
\* object with some of the fields type, src, thumb and preview, or null
StringItem(u) ==
  [form |-> "string", str |-> u, arr |-> <<>>, type |-> NoType, src |-> Undefined,
   thumb |-> Undefined, preview |-> Undefined]
ArrayItem(a) ==
  [form |-> "array", str |-> Undefined, arr |-> a, type |-> NoType, src |-> Undefined,
   thumb |-> Undefined, preview |-> Undefined]
ObjectItem(type, source, thumb, preview) ==
  [form |-> "object", str |-> Undefined, arr |-> <<>>, type |-> type, src |-> source,
   thumb |-> thumb, preview |-> preview]
NullItem ==
  [form |-> "null", str |-> Undefined, arr |-> <<>>, type |-> NoType, src |-> Undefined,
   thumb |-> Undefined, preview |-> Undefined]

\* Faulty variant of lastIndexOf: the first occurrence
lastIndexOf_first(s, c) ==
  LET I == {i \in 1..Len(s) : s[i] = c}
  IN IF I = {} THEN 0 ELSE CHOOSE i \in I : \A j \in I : i <= j

\* String.prototype.lastIndexOf, counted from 1: 0 when c does not occur
lastIndexOf(s, c) ==
  LET I == {i \in 1..Len(s) : s[i] = c}
  IN IF I = {} THEN 0 ELSE CHOOSE i \in I : \A j \in I : j <= i

\* filename.replace(/\.mp4$/i, '')
stripMp4(filename) ==
  LET n == Len(filename)
  IN IF /\ n >= 4
        /\ filename[n - 3] = "."
        /\ filename[n - 2] \in {"m", "M"}
        /\ filename[n - 1] \in {"p", "P"}
        /\ filename[n] = "4"
     THEN SubSeq(filename, 1, n - 4)
     ELSE filename

S_video == <<"v", "i", "d", "e", "o">>
S_thumb == <<"t", "h", "u", "m", "b", ".", "j", "p", "g">>
S_preview == <<"p", "r", "e", "v", "i", "e", "w", ".", "g", "i", "f">>
S_dashThumb == <<"-">> \o S_thumb
S_dashPreview == <<"-">> \o S_preview

\* the block of parseItemData that derives thumb and preview of a video
deriveNames(item) ==
  LET lastSlash == lastIndexOf(item.src, "/")
      dir == SubSeq(item.src, 1, lastSlash)
      filename == SubSeq(item.src, lastSlash + 1, Len(item.src))
      basename == stripMp4(filename)
  IN IF basename = S_video
     THEN [item EXCEPT !.thumb = IF ~Truthy(@) THEN dir \o S_thumb ELSE @,
                       !.preview = IF ~Truthy(@) THEN dir \o S_preview ELSE @]
     ELSE [item EXCEPT !.thumb = IF ~Truthy(@) THEN dir \o basename \o S_dashThumb ELSE @,
                       !.preview = IF ~Truthy(@) THEN dir \o basename \o S_dashPreview
                                   ELSE @]

\* Faulty variant of parseItemData: names are derived for every item with a source
parseItemData_deriveAll(itemData) ==
  IF itemData.form = "string"
  THEN [threw |-> FALSE, item |-> deriveNames([NoItem EXCEPT !.type = "image", !.src = itemData.str])]
  ELSE IF itemData.form = "array"
  THEN [threw |-> FALSE,
        item |-> [NoItem EXCEPT !.type = "image",
                                !.src = IF Len(itemData.arr) > 0 THEN itemData.arr[1]
                                        ELSE Undefined]]
  ELSE IF itemData.form = "null"
  THEN [threw |-> TRUE, item |-> NoItem]
  ELSE
    LET item == [type |-> IF itemData.type \in {NoType, ""} THEN "image" ELSE itemData.type,
                 src |-> itemData.src, thumb |-> itemData.thumb,
                 preview |-> itemData.preview]
    IN [threw |-> FALSE,
        item |-> IF Truthy(item.src) THEN deriveNames(item) ELSE item]

\* reading itemData.type of null throws a TypeError
parseItemData(itemData) ==
  IF itemData.form = "string"
  THEN [threw |-> FALSE, item |-> [NoItem EXCEPT !.type = "image", !.src = itemData.str]]
  ELSE IF itemData.form = "array"
  THEN [threw |-> FALSE,
        item |-> [NoItem EXCEPT !.type = "image",
                                !.src = IF Len(itemData.arr) > 0 THEN itemData.arr[1]
                                        ELSE Undefined]]
  ELSE IF itemData.form = "null"
  THEN [threw |-> TRUE, item |-> NoItem]
  ELSE
    LET item == [type |-> IF itemData.type \in {NoType, ""} THEN "image" ELSE itemData.type,
                 src |-> itemData.src, thumb |-> itemData.thumb,
                 preview |-> itemData.preview]
    IN [threw |-> FALSE,
        item |-> IF item.type = "video" /\ Truthy(item.src) THEN deriveNames(item)
                 ELSE item]

NoParse == [op |-> "none", itemData |-> NullItem, out |-> [threw |-> FALSE, item |-> NoItem]]

(***************************************************************************)
(* Initialization.  A page is the sequence of its .pg-gallery elements, each *)
(* with its data-images attribute, and the number of its hero videos.  The   *)
(* attribute is absent, or text JSON.parse rejects, or the text of a JSON    *)
(* value: a list of item descriptors, or a value that is not a list.         *)
(***************************************************************************)
AbsentPayload == [kind |-> "absent", list |-> FALSE, items |-> <<>>]
InvalidPayload == [kind |-> "invalid", list |-> FALSE, items |-> <<>>]
NotAListPayload == [kind |-> "json", list |-> FALSE, items |-> <<>>]
ListPayload(items) == [kind |-> "json", list |-> TRUE, items |-> items]

\* createPhotoElement after parseItemData returned r: item.src.split('/') is a
\* TypeError when item.src is undefined
photoOf(r) ==
  IF r.threw \/ r.item.src = Undefined
  THEN [threw |-> TRUE, isVideo |-> FALSE]
  ELSE [threw |-> FALSE, isVideo |-> r.item.type = "video"]

\* createPhotoElement up to its return
createPhotoElement(itemData) == photoOf(parseItemData(itemData))

NoGallery == [photos |-> 0, audioObserved |-> 0, lazyObserved |-> FALSE, threw |-> FALSE]

\* one round of images.forEach(...): the photo is appended and, a video, observed
appendPhoto(g, photo) ==
  IF photo.threw THEN [g EXCEPT !.threw = TRUE]
  ELSE [g EXCEPT !.photos = @ + 1,
                 !.audioObserved = IF photo.isVideo THEN @ + 1 ELSE @]

\* images.forEach(...) of initGallery from item i on: an exception ends the loop
RECURSIVE forEachImage(_, _, _)
forEachImage(items, i, g) ==
  IF i > Len(items) \/ g.threw THEN g
  ELSE forEachImage(items, i + 1, appendPhoto(g, createPhotoElement(items[i])))

\* the end of initGallery: lazyLoadObserver.observe(gallery)
observeGallery(g) == IF g.threw THEN g ELSE [g EXCEPT !.lazyObserved = TRUE]

\* Faulty variant of initGallery: the SyntaxError of JSON.parse is not caught
initGallery_noCatch(payload) ==
  IF payload.kind = "absent" THEN NoGallery
  ELSE IF payload.kind = "invalid" THEN [NoGallery EXCEPT !.threw = TRUE]
  ELSE IF ~payload.list THEN [NoGallery EXCEPT !.threw = TRUE]
  ELSE observeGallery(forEachImage(payload.items, 1, NoGallery))

\* a value that is not a list has no forEach: a TypeError
initGallery(payload) ==
  IF payload.kind = "absent" THEN NoGallery
  ELSE IF payload.kind = "invalid" THEN NoGallery
  ELSE IF ~payload.list THEN [NoGallery EXCEPT !.threw = TRUE]
  ELSE observeGallery(forEachImage(payload.items, 1, NoGallery))

\* galleries.forEach(initGallery) from gallery i on: an exception ends the loop
RECURSIVE forEachGallery(_, _, _)
forEachGallery(galleries, i, done) ==
  IF i > Len(galleries) \/ (Len(done) > 0 /\ done[Len(done)].threw) THEN done
  ELSE forEachGallery(galleries, i + 1, Append(done, initGallery(galleries[i])))

\* init() after galleries.forEach(initGallery) initialized the galleries of done:
\* the hero videos, then the document listeners, unless an exception left init
afterGalleries(page, done) ==
  LET threw == Len(done) > 0 /\ done[Len(done)].threw
  IN [galleries |-> [i \in 1..Len(page.galleries) |->
                       IF i <= Len(done) THEN done[i] ELSE NoGallery],
      heroes |-> IF threw THEN 0 ELSE page.heroes,
      documentListeners |-> ~threw,
      threw |-> threw]

\* init(): the galleries, then the hero videos, then the document listeners
init(page) == afterGalleries(page, forEachGallery(page.galleries, 1, <<>>))

NoPage == [galleries |-> <<>>, heroes |-> 0]
NoBoot == [op |-> "none", page |-> NoPage, out |-> init(NoPage)]

(***************************************************************************)
(* Initial state: init() has run.  createPhotoElement leaves every photo    *)
(* normal at its origin with a muted video that carries data-lazy-src; a    *)
(* hero video is a muted, paused <video data-lazy-src> of the markup.       *)
(***************************************************************************)
InitialRotations == {1}

Init ==
  /\ muted = [v \in Videos |-> TRUE]
  /\ volume = [v \in Videos |-> "full"]
  /\ paused = [v \in Videos |-> TRUE]
  /\ src = [v \in Videos |-> "none"]
  /\ lazySrc = [v \in Videos |-> UrlOf(v)]
  /\ videoSrc = [v \in Videos |-> NoUrl]
  /\ canplay = [v \in Videos |-> FALSE]
  /\ bar = [p \in Photos |-> "none"]
  /\ loadedVideos = {}
  /\ pendingFetches = [v \in Videos |-> FALSE]
  /\ orphanFetches = [v \in Videos |-> 0]
  /\ abortedFetches = [v \in Videos |-> 0]
  /\ activeVideo = NoVideo
  /\ fadeIns = [v \in Videos |-> 0]
  /\ fadeOuts = [v \in Videos |-> 0]
  /\ timers = [v \in Videos |-> 0]
  /\ state = [p \in Photos |-> "normal"]
  /\ \E r \in InitialRotations :
       pos = [p \in Photos |->
                [originX |-> 0, originY |-> 0, currentX |-> 0, currentY |-> 0,
                 currentRotation |-> r, hover |-> <<>>, drag |-> <<>>]]
  /\ justDismissed = [p \in Photos |-> FALSE]
  /\ dragState = NoDrag
  /\ over = NoPhoto
  /\ button = FALSE
  /\ mobile \in BOOLEAN
  /\ inMargin = [v \in HeroVideos |-> FALSE]
  /\ halfVisible = [v \in Videos |-> TRUE]
  /\ last = <<"init", "none">>
  /\ audioOp = [op |-> "none", video |-> NoVideo, prev |-> NoVideo]
  /\ sessionLog = NoLog
  /\ geo = NoGeo
  /\ parsed = NoParse
  /\ boot = NoBoot

Env == <<over, button, mobile, inMargin, halfVisible, sessionLog, geo, parsed, boot>>

\* the microtask queue is empty: no aborted fetch awaits its .catch
Idle == \A v \in Videos : abortedFetches[v] = 0

(***************************************************************************)
(* Pointer events.  A photo listener runs first, then the event bubbles to  *)
(* the document listener unless a child (the filename label, the audio      *)
(* toggle wrapper) stopped it.                                              *)
(***************************************************************************)
\* where on a photo the pointer is: its body, its filename label, its audio toggle
Targets(p) == IF VideoOf(p) = NoVideo THEN {"photo", "label"}
              ELSE {"photo", "label", "toggle"}

MouseEnter(p) ==
  /\ Idle
  /\ over = NoPhoto
  /\ over' = p
  /\ Commit(mouseenterListener(World, p))
  /\ last' = <<"mouseenter", p>>
  /\ UNCHANGED <<button, mobile, inMargin, halfVisible, sessionLog, geo, parsed, boot>>

MouseLeave(p, jx, jy, rot) ==
  /\ Idle
  /\ over = p
  /\ over' = NoPhoto
  /\ Commit(mouseleaveListener(World, p, jx, jy, rot))
  /\ last' = <<"mouseleave", p>>
  /\ UNCHANGED <<button, mobile, inMargin, halfVisible, sessionLog, geo, parsed, boot>>

\* mousedown on the photo the pointer is over; label and toggle stop propagation
MouseDown(p, target, clientX, clientY) ==
  /\ Idle
  /\ over = p
  /\ ~button
  /\ target \in Targets(p)
  /\ button' = TRUE
  /\ IF target = "photo"
     THEN Commit(mousedownListener(World, p, clientX, clientY))
     ELSE Commit(World)
  /\ last' = <<IF target = "photo" THEN "mousedown" ELSE "mousedownstopped", p>>
  /\ sessionLog' = IF target = "photo" /\ state[p] \in {"hover", "clicked"}
                   THEN [first |-> state[p] = "hover", exceeded |-> FALSE,
                         down |-> <<clientX, clientY>>,
                         from |-> <<pos'[p].currentX, pos'[p].currentY>>,
                         tentative |-> <<>>]
                   ELSE sessionLog
  /\ UNCHANGED <<over, mobile, inMargin, halfVisible, geo, parsed, boot>>

\* mousemove that reaches the document listener
MouseMove(clientX, clientY) ==
  /\ Idle
  /\ Commit(onDocumentMouseMove(World, clientX, clientY))
  /\ last' = <<"mousemove", dragState.photo>>
  /\ sessionLog' =
       LET dx == clientX - sessionLog.down[1]
           dy == clientY - sessionLog.down[2]
           c == constrainToViewport(Geometry(dragState.photo), Window,
                                    sessionLog.from[1] + dx, sessionLog.from[2] + dy,
                                    clickedScale)
       IN IF dragState.active /\ (sessionLog.exceeded \/ Far(dx, dy))
          THEN [sessionLog EXCEPT !.exceeded = TRUE, !.tentative = <<c.x, c.y>>]
          ELSE sessionLog
  /\ UNCHANGED <<over, button, mobile, inMargin, halfVisible, geo, parsed, boot>>

\* mousemove over the audio toggle wrapper of photo p: the wrapper stops its
\* propagation, no listener of the script runs
MouseMoveStopped(p, clientX, clientY) ==
  /\ Idle
  /\ over = p
  /\ "toggle" \in Targets(p)
  /\ Commit(World)
  /\ last' = <<"mousemovestopped", p>>
  /\ sessionLog' =
       LET dx == clientX - sessionLog.down[1]
           dy == clientY - sessionLog.down[2]
           c == constrainToViewport(Geometry(dragState.photo), Window,
                                    sessionLog.from[1] + dx, sessionLog.from[2] + dy,
                                    clickedScale)
       IN IF dragState.active /\ (sessionLog.exceeded \/ Far(dx, dy))
          THEN [sessionLog EXCEPT !.exceeded = TRUE, !.tentative = <<c.x, c.y>>]
          ELSE sessionLog
  /\ UNCHANGED <<over, button, mobile, inMargin, halfVisible, geo, parsed, boot>>

\* mouseup that reaches the document listener: anywhere but on a label or a toggle
MouseUp(jx, jy, rot) ==
  /\ Idle
  /\ button
  /\ button' = FALSE
  /\ Commit(onDocumentMouseUp(World, jx, jy, rot))
  /\ last' = <<"mouseup", dragState.photo>>
  /\ sessionLog' = NoLog
  /\ UNCHANGED <<over, mobile, inMargin, halfVisible, geo, parsed, boot>>

\* mouseup on a filename label or an audio toggle wrapper: stopPropagation
MouseUpStopped(p, target) ==
  /\ Idle
  /\ button
  /\ over = p
  /\ target \in Targets(p) \ {"photo"}
  /\ button' = FALSE
  /\ Commit(World)
  /\ last' = <<"mouseupstopped", p>>
  /\ UNCHANGED <<over, mobile, inMargin, halfVisible, sessionLog, geo, parsed, boot>>

(***************************************************************************)
(* Audio toggle, audio-visibility observers, fades                          *)
(***************************************************************************)
\* click on .video-audio-toggle (or a call through window.videoAudioController)
ToggleClick(v) ==
  /\ Idle
  /\ Commit(toggleAudio(World, v))
  /\ last' = <<"toggle", v>>
  /\ UNCHANGED Env

\* the Audio Controller operation the toggle has just called is called again, with
\* the same video, before any animation frame
RepeatAudioOp ==
  /\ Idle
  /\ last[1] = "toggle"
  /\ audioOp.op \in {"activate", "deactivate"}
  /\ IF audioOp.op = "activate"
     THEN Commit(setAudioActive(World, audioOp.video))
     ELSE Commit(setAudioInactive(World, audioOp.video))
  /\ last' = <<"repeat", audioOp.video>>
  /\ UNCHANGED Env

\* galleryAudioObserver / heroAudioObserver entry for v
AudioObserver(v, atLeastHalf) ==
  /\ Idle
  /\ atLeastHalf => ~halfVisible[v]
  /\ halfVisible' = [halfVisible EXCEPT ![v] = atLeastHalf]
  /\ IF ~atLeastHalf /\ ~muted[v]
     THEN Commit(setAudioInactive(World, v))
     ELSE Commit(World)
  /\ last' = <<IF atLeastHalf THEN "audiovisible" ELSE "audiohidden", v>>
  /\ UNCHANGED <<over, button, mobile, inMargin, sessionLog, geo, parsed, boot>>

\* an animation frame of fadeInAudio with progress < 1
FadeInStep(v) ==
  /\ Idle
  /\ fadeIns[v] > 0
  /\ Commit([World EXCEPT !.volume[v] = "part"])
  /\ last' = <<"fadeinstep", v>>
  /\ UNCHANGED Env

\* the last animation frame of fadeInAudio: progress = 1
FadeInEnd(v) ==
  /\ Idle
  /\ fadeIns[v] > 0
  /\ Commit(fadeInLastTick(World, v))
  /\ last' = <<"fadeinend", v>>
  /\ UNCHANGED Env

\* an animation frame of fadeOutAudio with progress < 1: startVolume * (1 - progress)
FadeOutStep(v) ==
  /\ Idle
  /\ fadeOuts[v] > 0
  /\ Commit([World EXCEPT !.volume[v] = "part"])
  /\ last' = <<"fadeoutstep", v>>
  /\ UNCHANGED Env

\* the last animation frame of fadeOutAudio: muted = true, volume = 1
FadeOutEnd(v) ==
  /\ Idle
  /\ fadeOuts[v] > 0
  /\ Commit(fadeOutLastTick(World, v))
  /\ last' = <<"fadeoutend", v>>
  /\ UNCHANGED Env

(***************************************************************************)
(* Fetch continuations and the canplay listener                             *)
(***************************************************************************)
\* the world without the fetch of v whose continuation runs: it is the fetch whose
\* handle pendingFetches holds (the entry then denotes it, and the continuation's
\* delete removes it), or an orphan
takeFetch(w, v, which) ==
  IF which = "registered"
  THEN [w EXCEPT !.pendingFetches[v] = FALSE]
  ELSE [w EXCEPT !.orphanFetches[v] = @ - 1]

FetchInFlight(v, which) ==
  IF which = "registered" THEN pendingFetches[v] ELSE orphanFetches[v] > 0

\* .then(blob => ...) of a fetch of v; w is the world without that fetch
fetchThen(w, v) ==
  LET w1 == deleteEntry(w, v)
      \* video.src = blobUrl; canplay listener; video.load(); video.play()
      w2 == play([w1 EXCEPT !.src[v] = "blob", !.canplay[v] = TRUE], v)
  IN [w2 EXCEPT !.loadedVideos = @ \cup {v}, !.lazySrc[v] = NoUrl]

\* Faulty variant of fetchCatch: an AbortError is handled as any other error
fetchCatch_abortIsError(w, v, errName) ==
  LET w1 == deleteEntry(w, v)
      w2 == IF PhotoOf(v) # NoPhoto
            THEN [createLoadingBar(removeLoadingBar(w1, PhotoOf(v)), PhotoOf(v))
                    EXCEPT !.bar[PhotoOf(v)] = "error"]
            ELSE w1
  IN IF w2.videoSrc[v] # NoUrl
     THEN [w2 EXCEPT !.lazySrc[v] = w2.videoSrc[v]] ELSE w2

\* .catch(err => ...) of a fetch of v; errName is err.name
fetchCatch(w, v, errName) ==
  LET w1 == deleteEntry(w, v)
  IN IF errName = "AbortError"
     THEN IF PhotoOf(v) # NoPhoto THEN removeLoadingBar(w1, PhotoOf(v)) ELSE w1
     ELSE
       LET w2 == IF PhotoOf(v) # NoPhoto
                 THEN [createLoadingBar(removeLoadingBar(w1, PhotoOf(v)), PhotoOf(v))
                         EXCEPT !.bar[PhotoOf(v)] = "error"]
                 ELSE w1
       IN IF w2.videoSrc[v] # NoUrl
          THEN [w2 EXCEPT !.lazySrc[v] = w2.videoSrc[v]] ELSE w2

\* the body of a fetch was read to its end
FetchComplete(v, which) ==
  /\ Idle
  /\ FetchInFlight(v, which)
  /\ Commit(fetchThen(takeFetch(World, v, which), v))
  /\ last' = <<"fetchcomplete", v>>
  /\ UNCHANGED Env

\* a fetch ends with a network error or a response that is not ok
FetchFail(v, which) ==
  /\ Idle
  /\ FetchInFlight(v, which)
  /\ Commit(fetchCatch(takeFetch(World, v, which), v, "Error"))
  /\ last' = <<"fetchfail", v>>
  /\ UNCHANGED Env

\* the microtask of an aborted fetch: its promise was rejected with an AbortError
FetchAborted(v) ==
  /\ abortedFetches[v] > 0
  /\ Commit(fetchCatch([World EXCEPT !.abortedFetches[v] = @ - 1], v, "AbortError"))
  /\ last' = <<"fetchaborted", v>>
  /\ UNCHANGED Env

\* the once-listener onCanPlay
CanPlay(v) ==
  /\ Idle
  /\ canplay[v]
  /\ LET w1 == [World EXCEPT !.canplay[v] = FALSE]
     IN Commit(IF PhotoOf(v) # NoPhoto THEN removeLoadingBar(w1, PhotoOf(v)) ELSE w1)
  /\ last' = <<"canplay", v>>
  /\ UNCHANGED Env

(***************************************************************************)
(* Hero mode                                                                *)
(***************************************************************************)
\* heroPlaybackObserver entry for v
HeroPlayback(v, isIntersecting) ==
  /\ Idle
  /\ v \in HeroVideos
  /\ inMargin[v] # isIntersecting
  /\ inMargin' = [inMargin EXCEPT ![v] = isIntersecting]
  /\ IF isIntersecting
     THEN Commit(playVideo(loadVideo(World, v), v))
     ELSE IF ~muted[v]
     THEN Commit([setAudioInactive(World, v) EXCEPT
                    !.timers[v] = @ + 1, !.cap = @ \/ timers[v] >= MaxTimers])
     ELSE Commit(pauseVideo(World, v))
  /\ last' = <<IF isIntersecting THEN "heroenter" ELSE "heroleave", v>>
  /\ UNCHANGED <<over, button, mobile, halfVisible, sessionLog, geo, parsed, boot>>

\* setTimeout(() => pauseVideo(video), 350)
PauseTimer(v) ==
  /\ Idle
  /\ timers[v] > 0
  /\ Commit(pauseVideo([World EXCEPT !.timers[v] = @ - 1], v))
  /\ last' = <<"pausetimer", v>>
  /\ UNCHANGED Env

\* the viewport crosses max-width: 768px
Resize ==
  /\ Idle
  /\ mobile' = ~mobile
  /\ Commit(World)
  /\ last' = <<"resize", "none">>
  /\ UNCHANGED <<over, button, inMargin, halfVisible, sessionLog, geo, parsed, boot>>

(***************************************************************************)
(* constrainToViewport called on its own: any photo box, viewport, candidate *)
(* translation and scale, then once more on its own result.                  *)
(***************************************************************************)
Constrain(photo, win, x, y, scale) ==
  /\ geo' = [op |-> "constrain", photo |-> photo, win |-> win, scale |-> scale,
             x |-> x, y |-> y, out |-> constrainToViewport(photo, win, x, y, scale)]
  /\ last' = <<"constrain", "none">>
  /\ Commit(World)
  /\ UNCHANGED <<over, button, mobile, inMargin, halfVisible, sessionLog, parsed, boot>>

ConstrainAgain ==
  /\ geo.op # "none"
  /\ geo' = [geo EXCEPT !.op = "again", !.x = geo.out.x, !.y = geo.out.y,
                        !.out = constrainToViewport(geo.photo, geo.win, geo.out.x,
                                                    geo.out.y, geo.scale)]
  /\ last' = <<"constrainagain", "none">>
  /\ Commit(World)
  /\ UNCHANGED <<over, button, mobile, inMargin, halfVisible, sessionLog, parsed, boot>>

(***************************************************************************)
(* parseItemData called on its own, and init() run on a page.               *)
(***************************************************************************)
Parse(itemData) ==
  /\ parsed.op = "none"
  /\ parsed' = [op |-> "parse", itemData |-> itemData, out |-> parseItemData(itemData)]
  /\ last' = <<"parse", "none">>
  /\ Commit(World)
  /\ UNCHANGED <<over, button, mobile, inMargin, halfVisible, sessionLog, geo, boot>>

Boot(page) ==
  /\ boot.op = "none"
  /\ boot' = [op |-> "init", page |-> page, out |-> init(page)]
  /\ last' = <<"init", "page">>
  /\ Commit(World)
  /\ UNCHANGED <<over, button, mobile, inMargin, halfVisible, sessionLog, geo, parsed>>

(***************************************************************************)
(* Specifications.  Spec is the whole system.  The other specifications     *)
(* are Spec under an environment that raises only some of the events or     *)
(* draws only some of the inputs: every behaviour of theirs is a behaviour  *)
(* of Spec.                                                                 *)
(***************************************************************************)
\* samples of randomInRange(-putDownDrift, putDownDrift) and of the put-down rotation
DriftSamples == {0 - putDownDrift, 0, putDownDrift - 1}
RotationSamples == {-7, 7}
\* pointer positions (clientX, clientY)
DownPoints == {<<0, 0>>}
MovePoints == {<<0, 0>>, <<3, 4>>, <<4, 4>>, <<300, 0>>}
Which == {"registered", "orphan"}

Next ==
  \/ \E p \in Photos : MouseEnter(p)
  \/ \E p \in Photos, jx \in DriftSamples, jy \in DriftSamples, rot \in RotationSamples :
       MouseLeave(p, jx, jy, rot)
  \/ \E p \in Photos, t \in {"photo", "label", "toggle"}, c \in DownPoints :
       MouseDown(p, t, c[1], c[2])
  \/ \E c \in MovePoints : MouseMove(c[1], c[2])
  \/ \E p \in Photos, c \in MovePoints : MouseMoveStopped(p, c[1], c[2])
  \/ \E jx \in DriftSamples, jy \in DriftSamples, rot \in RotationSamples :
       MouseUp(jx, jy, rot)
  \/ \E p \in Photos, t \in {"label", "toggle"} : MouseUpStopped(p, t)
  \/ \E v \in Videos : ToggleClick(v)
  \/ \E v \in Videos, b \in BOOLEAN : AudioObserver(v, b)
  \/ \E v \in Videos : FadeInStep(v)
  \/ \E v \in Videos : FadeInEnd(v)
  \/ \E v \in Videos : FadeOutStep(v)
  \/ \E v \in Videos : FadeOutEnd(v)
  \/ \E v \in Videos, k \in Which : FetchComplete(v, k)
  \/ \E v \in Videos, k \in Which : FetchFail(v, k)
  \/ \E v \in Videos : FetchAborted(v)
  \/ \E v \in Videos : CanPlay(v)
  \/ \E v \in HeroVideos, b \in BOOLEAN : HeroPlayback(v, b)
  \/ \E v \in HeroVideos : PauseTimer(v)
  \/ Resize

Spec == Init /\ [][Next]_vars

\* The Audio Controller alone: toggles, observer reports on one gallery video and
\* on the hero video, animation frames
AudioObserved == {"g1", "h1"}

NextAudio ==
  \/ \E v \in Videos : ToggleClick(v)
  \/ \E v \in AudioObserved, b \in BOOLEAN : AudioObserver(v, b)
  \/ \E v \in Videos : FadeInStep(v)
  \/ \E v \in Videos : FadeInEnd(v)
  \/ \E v \in Videos : FadeOutStep(v)
  \/ \E v \in Videos : FadeOutEnd(v)

SpecAudio == Init /\ [][NextAudio]_vars

\* requestAnimationFrame keeps calling back: a fade lasts CONFIG.audio.fadeIn /
\* fadeOut milliseconds, so the last frame of every fade in flight does run
AudioFairness ==
  \A v \in Videos : WF_vars(FadeInEnd(v)) /\ WF_vars(FadeOutEnd(v))

SpecAudioFair == SpecAudio /\ AudioFairness

\* The Audio Controller called twice: toggles of one gallery video and of the
\* hero video, the frames of their fades, and the operation a toggle called
\* called once more
NextRepeat ==
  \/ \E v \in AudioObserved : ToggleClick(v)
  \/ RepeatAudioOp
  \/ \E v \in AudioObserved : FadeInStep(v)
  \/ \E v \in AudioObserved : FadeInEnd(v)
  \/ \E v \in AudioObserved : FadeOutStep(v)
  \/ \E v \in AudioObserved : FadeOutEnd(v)

SpecRepeat == Init /\ [][NextRepeat]_vars

\* The audio observer at work on one gallery video, which the toggles of that
\* video and of the hero video activate, deactivate and hand over; the last frame
\* of every fade in flight runs in the end
ObserverReports == {"g1"}

NextObserver ==
  \/ \E v \in AudioObserved : ToggleClick(v)
  \/ \E v \in ObserverReports, b \in BOOLEAN : AudioObserver(v, b)
  \/ \E v \in AudioObserved : FadeInStep(v)
  \/ \E v \in AudioObserved : FadeInEnd(v)
  \/ \E v \in AudioObserved : FadeOutStep(v)
  \/ \E v \in AudioObserved : FadeOutEnd(v)

SpecObserverFair ==
  /\ Init
  /\ [][NextObserver]_vars
  /\ \A v \in AudioObserved : WF_vars(FadeInEnd(v)) /\ WF_vars(FadeOutEnd(v))

\* The video pipeline: hover over the two video photos, the hero video's visibility,
\* fetch continuations; no video is given audio
NextLoad ==
  \/ \E p \in VideoPhotos : MouseEnter(p)
  \/ \E p \in VideoPhotos : MouseLeave(p, 0, 0, 7)
  \/ \E v \in Videos, k \in Which : FetchComplete(v, k)
  \/ \E v \in Videos, k \in Which : FetchFail(v, k)
  \/ \E v \in Videos : FetchAborted(v)
  \/ \E v \in Videos : CanPlay(v)
  \/ \E v \in HeroVideos, b \in BOOLEAN : HeroPlayback(v, b)

SpecLoad == Init /\ [][NextLoad]_vars

\* The gallery pipeline with audio: hover over the two video photos, the audio
\* toggle of g1 and the last frames of its fades, fetch continuations
NextLoadAudio ==
  \/ \E p \in VideoPhotos : MouseEnter(p)
  \/ \E p \in VideoPhotos : MouseLeave(p, 0, 0, 7)
  \/ ToggleClick("g1")
  \/ FadeInEnd("g1")
  \/ FadeOutEnd("g1")
  \/ \E v \in GalleryVideos, k \in Which : FetchComplete(v, k)
  \/ \E v \in GalleryVideos, k \in Which : FetchFail(v, k)
  \/ \E v \in GalleryVideos : FetchAborted(v)
  \/ \E v \in GalleryVideos : CanPlay(v)

SpecLoadAudio == Init /\ [][NextLoadAudio]_vars

\* The hero video next to a gallery video: the hero video's visibility, its toggle
\* and the last frames of its fades, its pause timer, hover over p1, fetch
\* continuations
HeroSide == {"g1", "h1"}

NextHero ==
  \/ \E v \in HeroVideos, b \in BOOLEAN : HeroPlayback(v, b)
  \/ \E v \in HeroVideos : PauseTimer(v)
  \/ \E v \in HeroVideos : ToggleClick(v)
  \/ \E v \in HeroVideos : FadeInEnd(v)
  \/ \E v \in HeroVideos : FadeOutEnd(v)
  \/ MouseEnter("p1")
  \/ MouseLeave("p1", 0, 0, 7)
  \/ \E v \in HeroSide, k \in Which : FetchComplete(v, k)
  \/ \E v \in HeroSide : FetchAborted(v)
  \/ \E v \in HeroSide : CanPlay(v)

SpecHero == Init /\ [][NextHero]_vars

\* The pointer on one video photo and the image photo
PointerPhotos == {"p1", "p3"}
PointerDrifts == {0 - putDownDrift, 0}

NextPointer ==
  \/ \E p \in PointerPhotos : MouseEnter(p)
  \/ \E p \in PointerPhotos, jx \in PointerDrifts, jy \in PointerDrifts :
       MouseLeave(p, jx, jy, 7)
  \/ \E p \in PointerPhotos, t \in {"photo", "label", "toggle"}, c \in DownPoints :
       MouseDown(p, t, c[1], c[2])
  \/ \E c \in MovePoints : MouseMove(c[1], c[2])
  \/ \E jx \in PointerDrifts, jy \in PointerDrifts : MouseUp(jx, jy, 7)
  \/ \E p \in PointerPhotos, t \in {"label", "toggle"} : MouseUpStopped(p, t)
  \/ \E v \in Videos, k \in Which : FetchComplete(v, k)
  \/ \E v \in Videos : FetchAborted(v)

SpecPointer == Init /\ [][NextPointer]_vars

\* Pointer events while the viewport is resized across the mobile media query:
\* a photo hovered, clicked or dismissed on the wide viewport meets the pointer
\* again on the narrow one
MobileMoves == {<<0, 0>>, <<300, 0>>}

NextMobile ==
  \/ Resize
  \/ \E p \in PointerPhotos : MouseEnter(p)
  \/ \E p \in PointerPhotos : MouseLeave(p, 0, 0, 7)
  \/ \E p \in PointerPhotos, t \in {"photo", "label"}, c \in DownPoints :
       MouseDown(p, t, c[1], c[2])
  \/ \E c \in MobileMoves : MouseMove(c[1], c[2])
  \/ MouseUp(0, 0, 7)
  \/ \E p \in PointerPhotos : MouseUpStopped(p, "label")
  \/ \E v \in GalleryVideos, k \in Which : FetchComplete(v, k)
  \/ \E v \in GalleryVideos : FetchAborted(v)

SpecMobile == Init /\ [][NextMobile]_vars

\* Item descriptors: sources put together from a directory part, a name and an
\* extension, so that the parts a derived name is made of are known
SrcDirs == {<<>>, <<"/">>, <<"d", "/">>, <<"d", "/", "e", "/">>}
SrcNames == {<<>>, S_video, <<"0", "2">>, <<"V", "i", "d", "e", "o">>, S_video \o <<"2">>}
SrcExts == {<<>>, <<".", "m", "p", "4">>, <<".", "M", "P", "4">>, <<".", "m", "o", "v">>}
Mp4Exts == {<<".", "m", "p", "4">>, <<".", "M", "P", "4">>}
SrcUrls == {d \o n \o e : d \in SrcDirs, n \in SrcNames, e \in SrcExts}
GivenNames == {Undefined, <<>>, <<"t", ".", "p", "n", "g">>}
ItemTypes == {NoType, "", "image", "video", "audio"}

ItemInputs ==
  {StringItem(u) : u \in SrcUrls}
    \cup {ArrayItem(a) : a \in {<<>>} \cup {<<u>> : u \in SrcUrls}
                                \cup {<<u, S_video>> : u \in SrcUrls}}
    \cup {ObjectItem(t, u, th, pr) : t \in ItemTypes, u \in SrcUrls \cup {Undefined},
                                     th \in GivenNames, pr \in GivenNames}
    \cup {NullItem}

NextParse == \E itemData \in ItemInputs : Parse(itemData)

SpecParse == Init /\ [][NextParse]_vars

\* Pages: two galleries, each with a payload of every kind, lists of up to
\* MaxItems descriptors, well formed and malformed, and one hero video
MaxItems == 2
PageItems ==
  {StringItem(<<"a", ".", "j", "p", "g">>),
   ObjectItem("video", <<"d", "/">> \o S_video \o <<".", "m", "p", "4">>, Undefined, Undefined),
   ObjectItem("video", Undefined, Undefined, Undefined),
   NullItem}
ItemLists == UNION {[1..n -> PageItems] : n \in 0..MaxItems}
Payloads ==
  {AbsentPayload, InvalidPayload, NotAListPayload} \cup {ListPayload(l) : l \in ItemLists}
Pages == {[galleries |-> <<a, b>>, heroes |-> 1] : a \in Payloads, b \in Payloads}

NextBoot == \E page \in Pages : Boot(page)

SpecBoot == Init /\ [][NextBoot]_vars

\* Everything but the Audio Controller at work around an audible video: hover
\* over the two video photos (load, unload, eviction), click, drag and dismissal
\* of p1, the toggle of g1 and the last frames of its fades, fetch continuations
NextFrame ==
  \/ \E p \in VideoPhotos : MouseEnter(p)
  \/ \E p \in VideoPhotos : MouseLeave(p, 0, 0, 7)
  \/ \E c \in DownPoints : MouseDown("p1", "photo", c[1], c[2])
  \/ MouseMove(300, 0)
  \/ MouseUp(0, 0, 7)
  \/ ToggleClick("g1")
  \/ FadeInEnd("g1")
  \/ FadeOutEnd("g1")
  \/ \E v \in GalleryVideos, k \in Which : FetchComplete(v, k)
  \/ \E v \in GalleryVideos : FetchAborted(v)
  \/ \E v \in GalleryVideos : CanPlay(v)

SpecFrame == Init /\ [][NextFrame]_vars

\* A drag of the video photo p1: pointer moves over its body, which reach the
\* document listener, and over its audio toggle wrapper, which do not
NextDrag ==
  \/ MouseEnter("p1")
  \/ \E jx \in PointerDrifts, jy \in PointerDrifts : MouseLeave("p1", jx, jy, 7)
  \/ \E c \in DownPoints : MouseDown("p1", "photo", c[1], c[2])
  \/ \E c \in MovePoints : MouseMove(c[1], c[2])
  \/ \E c \in MovePoints : MouseMoveStopped("p1", c[1], c[2])
  \/ \E jx \in PointerDrifts, jy \in PointerDrifts : MouseUp(jx, jy, 7)
  \/ \E k \in Which : FetchComplete("g1", k)
  \/ FetchAborted("g1")

SpecDrag == Init /\ [][NextDrag]_vars

\* The viewport constraint as a function: photo boxes at the three places of the
\* page, a viewport that holds a photo at every scale, one that does not hold it at
\* clickedScale and one that does not hold it at hoverScale either, translations
\* on both sides of every bound
GeoPhotos == {Geometry(p) : p \in Photos}
GeoWindows == {Window, [innerWidth |-> 800, innerHeight |-> 500],
               [innerWidth |-> 400, innerHeight |-> 300]}
GeoScales == {100, hoverScale, clickedScale}
GeoCoords == {-1000, -32, 0, 32, 404, 1000}

NextGeometry ==
  \/ \E photo \in GeoPhotos, win \in GeoWindows, x \in GeoCoords, y \in GeoCoords,
        scale \in GeoScales : Constrain(photo, win, x, y, scale)
  \/ ConstrainAgain

SpecGeometry == Init /\ [][NextGeometry]_vars

(***************************************************************************)
(* Properties                                                               *)
(***************************************************************************)
StateEdges == {<<"normal", "hover">>, <<"hover", "clicked">>,
               <<"hover", "normal">>, <<"clicked", "normal">>}

\* C1: the state of every photo is normal, hover or clicked, and a step changes it
\* only along normal -> hover, hover -> clicked, hover -> normal, clicked -> normal.
C1_StateMachine ==
  [][\A p \in Photos :
       /\ state[p] \in {"normal", "hover", "clicked"}
       /\ state'[p] \in {"normal", "hover", "clicked"}
       /\ state'[p] # state[p] => <<state[p], state'[p]>> \in StateEdges]_vars

\* a photo went normal -> hover -> clicked and a mouseup took it back to normal
C1_Witness ==
  /\ last = <<"mouseup", "p1">>
  /\ state["p1"] = "normal"
  /\ justDismissed["p1"]

\* the step calls loadVideo(v): the hero video enters the load margin, or the photo
\* of v goes from normal to hover
LoadCalled(v) ==
  \/ last' = <<"heroenter", v>>
  \/ /\ PhotoOf(v) # NoPhoto
     /\ last' \in {<<"mouseenter", PhotoOf(v)>>, <<"mousedown", PhotoOf(v)>>}
     /\ state[PhotoOf(v)] = "normal"
     /\ state'[PhotoOf(v)] = "hover"

\* the step calls unloadVideo(v) on a muted v: the photo of v returns to normal
UnloadCalled(v) ==
  /\ PhotoOf(v) # NoPhoto
  /\ muted[v]
  /\ last' \in {<<"mouseleave", PhotoOf(v)>>, <<"mouseup", PhotoOf(v)>>}
  /\ state[PhotoOf(v)] # "normal"
  /\ state'[PhotoOf(v)] = "normal"

\* a fetch of v is in flight (and was not aborted), or v holds a blob
NotUnloaded(v) == pendingFetches[v] \/ orphanFetches[v] > 0 \/ v \in loadedVideos

\* C2: among the muted videos, gallery and hero, at most one is not Unloaded, that
\* is, has a fetch in flight or holds a loaded blob.
C2_OneMutedVideoLoaded ==
  Cardinality({v \in Videos : muted[v] /\ NotUnloaded(v)}) <= 1

\* C3 as stated: at every instant, fades in flight or not, at most one video is unmuted.
C3_OneUnmuted ==
  Cardinality({v \in Videos : ~muted[v]}) <= 1

\* C3, amended: every unmuted video other than the active one has a fade-out in
\* flight, so at most one video is unmuted without being faded out.
C3_OneUnmutedNotFading ==
  \A v \in Videos : ~muted[v] => (v = activeVideo \/ fadeOuts[v] > 0)

\* two videos are unmuted: the active one and the previous one, which is fading out
C3_Witness ==
  /\ activeVideo = "g2"
  /\ ~muted["g2"]
  /\ ~muted["g1"]
  /\ fadeOuts["g1"] > 0
  /\ audioOp = [op |-> "activate", video |-> "g2", prev |-> "g1"]

\* the last Audio Controller call was activate(b) made while a was the active video
Handoff(a, b) == audioOp = [op |-> "activate", video |-> b, prev |-> a]

\* C4: once activate(b) was called while a was active, and as long as no other audio
\* operation is made, b is the active reference and is unmuted, and (the frames of
\* the fades running) a state follows where a and every video but b are muted.
C4_Handoff ==
  /\ [](\A a \in Videos : \A b \in Videos \ {a} :
          Handoff(a, b) => (activeVideo = b /\ ~muted[b]))
  /\ \A a \in Videos : \A b \in Videos \ {a} :
       Handoff(a, b) ~> (~Handoff(a, b) \/ \A v \in Videos \ {b} : muted[v])

\* C5: a step that calls unloadVideo on an unmuted video v (its photo returns to
\* normal, or another video is loaded and evicts the loaded ones) leaves v's
\* membership of loadedVideos, pending fetch, src, data-lazy-src and paused as
\* they are; in particular loading another video never takes v out of loadedVideos.
C5_UnmutedNeverUnloaded ==
  [][\A v \in Videos :
       ( /\ ~muted[v]
         /\ last'[1] \in {"mouseenter", "mouseleave", "mousedown", "mouseup", "heroenter"}
         /\ ~LoadCalled(v) ) =>
         /\ (v \in loadedVideos') = (v \in loadedVideos)
         /\ pendingFetches'[v] = pendingFetches[v]
         /\ src'[v] = src[v]
         /\ lazySrc'[v] = lazySrc[v]
         /\ paused'[v] = paused[v]]_vars

\* g2 was loaded by a hover while g1, loaded, had audio: the eviction passed over g1
C5_Witness ==
  /\ last = <<"mouseenter", "p2">>
  /\ state["p2"] = "hover"
  /\ pendingFetches["g2"]
  /\ ~muted["g1"]
  /\ "g1" \in loadedVideos
  /\ src["g1"] = "blob"

\* C6: load(b) called while the fetch of load(a), a muted video other than b, is in
\* flight aborts that fetch: no fetch of a is left that could make a loaded.
C6_LoadAbortsOtherFetch ==
  [][\A a \in Videos : \A b \in Videos \ {a} :
       (muted[a] /\ pendingFetches[a] /\ LoadCalled(b)) =>
         (~pendingFetches'[a] /\ orphanFetches'[a] = 0)]_vars

\* C7: unload(v) called on a muted v while a fetch of v is in flight cancels it: v has
\* no pending entry, no fetch left that could make it loaded, no blob and no bar.
C7_UnloadCancelsFetch ==
  [][\A v \in Videos :
       (UnloadCalled(v) /\ (pendingFetches[v] \/ orphanFetches[v] > 0)) =>
         /\ ~pendingFetches'[v]
         /\ orphanFetches'[v] = 0
         /\ v \notin loadedVideos'
         /\ src'[v] = "none"
         /\ bar'[PhotoOf(v)] = "none"]_vars

\* C8: the failure of a fetch of v, not a cancellation, leaves v not loaded, without
\* pending entry, with data-lazy-src back at the source URL, and starts no fetch.
C8_FailureLeavesUnloaded ==
  [][\A v \in Videos :
       last' = <<"fetchfail", v>> =>
         /\ v \notin loadedVideos'
         /\ src'[v] = "none"
         /\ ~pendingFetches'[v]
         /\ lazySrc'[v] = UrlOf(v)
         /\ CountOver(World, Videos)' = CountOver(World, Videos) - 1]_vars

\* C9: the continuation of an aborted fetch of v leaves no bar (no progress, no
\* error text) on the photo of v and changes neither data-lazy-src nor loadedVideos.
C9_AbortIsSilent ==
  [][\A v \in Videos :
       last' = <<"fetchaborted", v>> =>
         /\ PhotoOf(v) # NoPhoto => bar'[PhotoOf(v)] = "none"
         /\ lazySrc' = lazySrc
         /\ loadedVideos' = loadedVideos]_vars

\* the fetch of g1 was aborted by the unload on mouseleave and its continuation ran
C9_Witness ==
  /\ last = <<"fetchaborted", "g1">>
  /\ state["p1"] = "normal"
  /\ bar["p1"] = "none"
  /\ lazySrc["g1"] = UrlOf("g1")
  /\ "g1" \notin loadedVideos

LowX(g, t) == g.photo.baseLeft + g.photo.offsetWidth \div 2 + t.x
               - (g.photo.offsetWidth * g.scale) \div 200
HighX(g, t) == g.photo.baseLeft + g.photo.offsetWidth \div 2 + t.x
                + (g.photo.offsetWidth * g.scale) \div 200
LowY(g, t) == g.photo.baseTop + g.photo.offsetHeight \div 2 + t.y
               - (g.photo.offsetHeight * g.scale) \div 200
HighY(g, t) == g.photo.baseTop + g.photo.offsetHeight \div 2 + t.y
                + (g.photo.offsetHeight * g.scale) \div 200

\* C12 as stated: the translation constrainToViewport returns puts the scaled box
\* inside [0, innerWidth] x [0, innerHeight], whatever the box, viewport and scale.
C12_BoxInsideViewport ==
  geo.op # "none" =>
    /\ LowX(geo, geo.out) >= 0 /\ HighX(geo, geo.out) <= geo.win.innerWidth
    /\ LowY(geo, geo.out) >= 0 /\ HighY(geo, geo.out) <= geo.win.innerHeight

\* C12, amended: on an axis where the scaled box is no larger than the viewport
\* the returned translation puts it inside the viewport; on an axis where it is
\* larger, the low edge (left, top) is put at 0 and the box overflows the far side.
C12_BoxInsideWhenItFits ==
  geo.op # "none" =>
    /\ IF HighX(geo, geo.out) - LowX(geo, geo.out) <= geo.win.innerWidth
       THEN LowX(geo, geo.out) >= 0 /\ HighX(geo, geo.out) <= geo.win.innerWidth
       ELSE LowX(geo, geo.out) = 0
    /\ IF HighY(geo, geo.out) - LowY(geo, geo.out) <= geo.win.innerHeight
       THEN LowY(geo, geo.out) >= 0 /\ HighY(geo, geo.out) <= geo.win.innerHeight
       ELSE LowY(geo, geo.out) = 0

\* a box 1000 wide was constrained into a viewport 800 wide: its left edge is at 0
C12_Witness ==
  /\ geo.op = "constrain"
  /\ geo.scale = clickedScale
  /\ geo.win.innerWidth = 800
  /\ geo.x = 1000
  /\ LowX(geo, geo.out) = 0
  /\ HighX(geo, geo.out) = 1000

\* C13: constraining the result of the constraint again, for the same box, viewport
\* and scale, returns it unchanged, also when a lower bound exceeds its upper bound.
C13_ConstrainIdempotent ==
  geo.op = "again" => geo.out = [x |-> geo.x, y |-> geo.y]

\* the constraint was applied to its own result for a box larger than the viewport
C13_Witness ==
  /\ geo.op = "again"
  /\ geo.scale = hoverScale
  /\ geo.win.innerWidth = 400
  /\ HighX(geo, geo.out) - LowX(geo, geo.out) > geo.win.innerWidth
  /\ geo.out = [x |-> geo.x, y |-> geo.y]

\* |a - b| <= d
Near(a, b, d) == a - b <= d /\ b - a <= d

\* C14: a photo in normal state is within maxDriftFromOrigin of its origin on each
\* axis, whatever its position was before the put-down and whatever jitter was
\* drawn, and the origin stays what createPhotoElement made it, (0, 0).
C14_NormalNearOrigin ==
  \A p \in Photos :
    /\ pos[p].originX = 0 /\ pos[p].originY = 0
    /\ state[p] = "normal" =>
         /\ Near(pos[p].currentX, pos[p].originX, maxDriftFromOrigin)
         /\ Near(pos[p].currentY, pos[p].originY, maxDriftFromOrigin)

\* p1 was put down from its clicked position (400, 240): the clamp cut it to (32, 32)
C14_Witness ==
  /\ state["p1"] = "normal"
  /\ last = <<"mouseup", "p1">>
  /\ pos["p1"].currentX = maxDriftFromOrigin
  /\ pos["p1"].currentY = maxDriftFromOrigin

\* the scale of a state, in hundredths
ScaleOf(st) == CASE st = "hover" -> hoverScale [] st = "clicked" -> clickedScale
                 [] OTHER -> 100

\* the translation t of photo p is within the bounds of the viewport constraint at
\* the scale: the constraint returns it unchanged
WithinBounds(p, t, scale) ==
  constrainToViewport(Geometry(p), Window, t[1], t[2], scale) = [x |-> t[1], y |-> t[2]]

\* C15 as stated: in every state of every photo, its current position is within the
\* viewport bounds for the scale of that state.
C15_CurrentWithinBounds ==
  \A p \in Photos :
    WithinBounds(p, <<pos[p].currentX, pos[p].currentY>>, ScaleOf(state[p]))

\* C15, amended: the current position of a clicked photo is within the viewport
\* bounds for clickedScale, and the stored hover position of a hovered photo is
\* within the bounds for hoverScale (the viewport and the page do not move here).
C15_ShownWithinBounds ==
  \A p \in Photos :
    /\ state[p] = "clicked" =>
         WithinBounds(p, <<pos[p].currentX, pos[p].currentY>>, clickedScale)
    /\ state[p] = "hover" =>
         pos[p].hover # <<>> /\ WithinBounds(p, pos[p].hover, hoverScale)

\* p1, at the corner of the page, was clicked: the constraint moved it to (400, 240)
C15_Witness ==
  /\ state["p1"] = "clicked"
  /\ last = <<"mousedown", "p1">>
  /\ pos["p1"].currentX = 400
  /\ pos["p1"].currentY = 240
  /\ pos["p1"].hover = <<155, 93>>

\* C16: every mouseup made while a drag session is active ends it, wherever the
\* pointer is released (over a filename label or an audio toggle as well):
\* afterwards dragState is inactive, without owner, all fields reset.
C16_MouseUpEndsSession ==
  [][(dragState.active /\ last'[1] \in {"mouseup", "mouseupstopped"}) =>
       dragState' = NoDrag]_vars

\* the step is a mousedown that starts a drag session of photo p
StartsSession(p) ==
  /\ last' = <<"mousedown", p>>
  /\ dragState'.active
  /\ dragState'.photo = p

\* C17: a mousedown starts a drag session only when dragState is fully reset: no
\* session is overwritten that a mouseup has not ended.
C17_SessionStartsFromReset ==
  [][\A p \in Photos : StartsSession(p) => dragState = NoDrag]_vars

\* the video of photo p, as the load pipeline sees it
VideoState(p) ==
  IF VideoOf(p) = NoVideo THEN <<>>
  ELSE LET v == VideoOf(p)
       IN <<v \in loadedVideos, pendingFetches[v], orphanFetches[v], abortedFetches[v],
            src[v], lazySrc[v], paused[v], bar[p]>>

\* C18: a mouseleave of photo p during a drag session that p owns changes neither
\* the state, position and rotation of p nor the load state of its video; a
\* mouseleave of p during a session another photo owns puts p down as usual.
C18_LeaveDuringOwnDrag ==
  [][\A p \in Photos :
       (last' = <<"mouseleave", p>> /\ dragState.active) =>
         IF dragState.photo = p
         THEN /\ state'[p] = state[p]
              /\ pos'[p] = pos[p]
              /\ VideoState(p)' = VideoState(p)
         ELSE state'[p] = "normal"]_vars

\* the pointer left p1, clicked and being dragged, and p1 stayed as it was
C18_Witness ==
  /\ last = <<"mouseleave", "p1">>
  /\ over = NoPhoto
  /\ dragState.active
  /\ dragState.photo = "p1"
  /\ dragState.hasDragged
  /\ state["p1"] = "clicked"

\* what loadVideo(v) leaves behind: the source is kept, a video that holds a blob
\* plays, any other video has a new fetch in flight and a loading bar
LoadEffect(v) ==
  /\ videoSrc'[v] = UrlOf(v)
  /\ IF src[v] = "blob"
     THEN ~paused'[v]
     ELSE pendingFetches'[v] /\ bar'[PhotoOf(v)] # "none"

\* the mouseenter of photo p takes it to hover and loads its video, if it has one
EnterHovers(p) ==
  /\ state'[p] = "hover"
  /\ VideoOf(p) # NoVideo => LoadEffect(VideoOf(p))

\* C19 as stated: on a non-mobile viewport every mouseenter of a photo in normal
\* state takes it to hover and calls loadVideo for its video in the same step.
C19_EnterHovers ==
  [][\A p \in Photos :
       (last' = <<"mouseenter", p>> /\ ~mobile /\ state[p] = "normal") =>
         EnterHovers(p)]_vars

\* C19: on a non-mobile viewport every mouseenter of a photo in normal state that
\* is not marked justDismissed takes it to hover and calls loadVideo for its video
\* in the same step; the mouseenter of a photo marked justDismissed changes neither
\* its state nor its video.
C19_EnterHoversUnlessDismissed ==
  [][\A p \in Photos :
       (last' = <<"mouseenter", p>> /\ ~mobile /\ state[p] = "normal") =>
         IF justDismissed[p]
         THEN state'[p] = "normal" /\ VideoState(p)' = VideoState(p)
         ELSE EnterHovers(p)]_vars

\* the pointer entered p1 and the fetch of its video is in flight
C19_Witness ==
  /\ last = <<"mouseenter", "p1">>
  /\ ~mobile
  /\ state["p1"] = "hover"
  /\ pendingFetches["g1"]
  /\ bar["p1"] = "progress"

\* the step delivers a pointer event to a photo or to the document
PointerEvents ==
  {"mouseenter", "mouseleave", "mousedown", "mousedownstopped", "mousemove",
   "mouseup", "mouseupstopped"}

\* the step neither starts a fetch of v nor plays v nor gives it a blob
NotLoadedByStep(v) ==
  /\ pendingFetches'[v] => pendingFetches[v]
  /\ orphanFetches'[v] <= orphanFetches[v]
  /\ v \in loadedVideos' => v \in loadedVideos
  /\ ~paused'[v] => ~paused[v]
  /\ videoSrc'[v] = videoSrc[v]

\* C20: while the viewport matches the mobile media query, no pointer event takes
\* a photo out of normal state, and no pointer event loads a gallery video.
C20_MobileStaysNormal ==
  [][(mobile /\ last'[1] \in PointerEvents) =>
       /\ \A p \in Photos : state[p] = "normal" => state'[p] = "normal"
       /\ \A v \in GalleryVideos : NotLoadedByStep(v)]_vars

\* p1, once hovered on the wide viewport, took a mousedown on the narrow one and
\* stayed normal
C20_Witness ==
  /\ mobile
  /\ last = <<"mousedown", "p1">>
  /\ state["p1"] = "normal"
  /\ videoSrc["g1"] = UrlOf("g1")

\* C21: parseItemData maps a string, a one-element array holding a string, and an
\* object without a type field each to an item of type image whose src is that
\* string (the src of the object), and derives neither thumb nor preview for an
\* item of type image: both are what the descriptor gave, undefined for a string
\* or an array.
C21_ImageItems ==
  parsed.op = "parse" =>
    LET d == parsed.itemData
        item == parsed.out.item
    IN /\ d.form = "string" =>
            /\ ~parsed.out.threw
            /\ item = [type |-> "image", src |-> d.str, thumb |-> Undefined,
                       preview |-> Undefined]
       /\ (d.form = "array" /\ Len(d.arr) = 1) =>
            /\ ~parsed.out.threw
            /\ item = [type |-> "image", src |-> d.arr[1], thumb |-> Undefined,
                       preview |-> Undefined]
       /\ (d.form = "object" /\ d.type = NoType) =>
            /\ ~parsed.out.threw
            /\ item.type = "image"
            /\ item.src = d.src
       /\ (~parsed.out.threw /\ item.type = "image") =>
            /\ item.thumb = d.thumb
            /\ item.preview = d.preview

\* an object without type, with the source of a video, came out as an image
\* without thumb and preview
C21_Witness ==
  /\ parsed.op = "parse"
  /\ parsed.itemData.form = "object"
  /\ parsed.itemData.type = NoType
  /\ parsed.itemData.src = <<"d", "/">> \o S_video \o <<".", "m", "p", "4">>
  /\ parsed.out.item.type = "image"
  /\ parsed.out.item.thumb = Undefined
  /\ parsed.out.item.preview = Undefined

\* the name the claim derives from directory dir and basename x
DerivedName(dir, x, plain, dashed) ==
  IF x = S_video THEN dir \o plain ELSE dir \o x \o dashed

MalformedItem(d) == d.form = "null" \/ (d.form = "object" /\ d.src = Undefined)

\* a payload that parses as JSON and is not a list of well-formed descriptors
Malformed(payload) ==
  /\ payload.kind = "json"
  /\ ~payload.list \/ \E k \in DOMAIN payload.items : MalformedItem(payload.items[k])

\* init() has initialized gallery j in full: one photo for every descriptor, the
\* audio observer on every video, the lazy-load observer on the gallery
GalleryInitialized(j) ==
  LET payload == boot.page.galleries[j]
      g == boot.out.galleries[j]
  IN payload.kind = "json" =>
       /\ g.photos = Len(payload.items)
       /\ g.audioObserved =
            Cardinality({k \in DOMAIN payload.items : payload.items[k].type = "video"})
       /\ g.lazyObserved

\* init() has initialized everything but gallery i
RestInitialized(i) ==
  /\ \A j \in DOMAIN boot.page.galleries \ {i} : GalleryInitialized(j)
  /\ boot.out.heroes = boot.page.heroes
  /\ boot.out.documentListeners

\* C23: when the data-images of one gallery is not valid JSON, init() creates no
\* photo and registers no observer for that gallery, throws nothing on its
\* account, and initializes the other galleries (none of them malformed), the hero
\* videos and the document listeners.
C23_InvalidJsonSkipsGallery ==
  boot.op = "init" =>
    \A i \in DOMAIN boot.page.galleries :
      boot.page.galleries[i].kind = "invalid" =>
        /\ boot.out.galleries[i] = NoGallery
        /\ (\A j \in DOMAIN boot.page.galleries \ {i} : ~Malformed(boot.page.galleries[j]))
             => ~boot.out.threw /\ RestInitialized(i)

\* the first gallery has invalid JSON, the second an image and a video
C23_Witness ==
  /\ boot.op = "init"
  /\ boot.page.galleries[1] = InvalidPayload
  /\ Len(boot.page.galleries[2].items) = 2
  /\ boot.out.galleries[1] = NoGallery
  /\ boot.out.galleries[2] =
       [photos |-> 2, audioObserved |-> 1, lazyObserved |-> TRUE, threw |-> FALSE]
  /\ boot.out.heroes = 1
  /\ boot.out.documentListeners

\* C24: a malformed item list that parses as JSON (an object without src, a null
\* item, a value that is not a list) aborts the initialization of its gallery
\* only: init() throws nothing, and the other galleries (none of them malformed),
\* the hero videos and the document listeners are initialized.
C24_MalformedAbortsGalleryOnly ==
  boot.op = "init" =>
    \A i \in DOMAIN boot.page.galleries :
      ( /\ Malformed(boot.page.galleries[i])
        /\ \A j \in DOMAIN boot.page.galleries \ {i} : ~Malformed(boot.page.galleries[j]) )
        => ~boot.out.threw /\ RestInitialized(i)

\* C25: a report of the audio observer that video v is less than half visible,
\* made while v is unmuted, takes the active reference off v in that step, and a
\* state follows where v is muted; a report that v is at least half visible
\* changes neither any muted flag nor the active reference.
C25_HiddenDeactivates ==
  /\ [][\A v \in Videos :
          /\ (last' = <<"audiohidden", v>> /\ ~muted[v]) => activeVideo' # v
          /\ last' = <<"audiovisible", v>> =>
               (muted' = muted /\ activeVideo' = activeVideo)]_vars
  /\ \A v \in ObserverReports : (last = <<"audiohidden", v>>) ~> muted[v]

\* g1 was active and audible when it was reported hidden: its fade-out is running
C25_Witness ==
  /\ last = <<"audiohidden", "g1">>
  /\ audioOp = [op |-> "deactivate", video |-> "g1", prev |-> "g1"]
  /\ activeVideo = NoVideo
  /\ ~muted["g1"]
  /\ fadeOuts["g1"] > 0

\* the steps an IntersectionObserver callback or the pause timer it set makes
VisibilityEvents == {"heroenter", "heroleave", "pausetimer", "audiovisible", "audiohidden"}

\* what the playback observer does to a hero video: entering the margin, loadVideo
\* then playVideo; leaving it muted, pauseVideo at once; leaving it unmuted,
\* setAudioInactive and a timer that pauses it
HeroVisibility ==
  \A v \in HeroVideos :
    /\ last' = <<"heroenter", v>> =>
         /\ videoSrc'[v] = UrlOf(v)
         /\ src[v] = "blob" \/ pendingFetches'[v]
         /\ ~paused'[v]
    /\ (last' = <<"heroleave", v>> /\ muted[v]) =>
         /\ paused'[v]
         /\ timers' = timers
    /\ (last' = <<"heroleave", v>> /\ ~muted[v]) =>
         /\ activeVideo' # v
         /\ muted'[v] \/ fadeOuts'[v] = fadeOuts[v] + 1
         /\ paused'[v] = paused[v]
         /\ timers'[v] = timers[v] + 1
    /\ last' = <<"pausetimer", v>> => paused'[v]

\* C26 as stated: only hero videos are loaded by visibility: a hero video that
\* enters the load margin is loaded then played, one that leaves it is paused at
\* once when muted and deactivated then paused after the delay when unmuted, and
\* no visibility event loads, plays or pauses a gallery video.
C26_VisibilityLoadsHeroOnly ==
  [][/\ HeroVisibility
     /\ last'[1] \in VisibilityEvents =>
          \A g \in GalleryVideos : NotLoadedByStep(g) /\ (paused'[g] => paused[g])]_vars

\* C26: as above, but a visibility event may pause a gallery video in one way: the
\* loadVideo of a hero video that enters the margin unloads the muted gallery video
\* that is in loadedVideos.
C26_VisibilityEvictsGallery ==
  [][/\ HeroVisibility
     /\ last'[1] \in VisibilityEvents =>
          \A g \in GalleryVideos :
            /\ NotLoadedByStep(g)
            /\ (paused'[g] /\ ~paused[g]) =>
                 /\ last'[1] = "heroenter"
                 /\ muted[g]
                 /\ g \in loadedVideos
                 /\ g \notin loadedVideos']_vars

\* the hero video left the margin unmuted, was deactivated, and its timer paused it
C26_Witness ==
  /\ last = <<"pausetimer", "h1">>
  /\ audioOp = [op |-> "deactivate", video |-> "h1", prev |-> "h1"]
  /\ ~inMargin["h1"]
  /\ paused["h1"]
  /\ activeVideo = NoVideo

\* the active reference and the muted flags once every fade in flight has finished
Outcome == [activeVideo |-> settle(World).activeVideo, muted |-> settle(World).muted]

\* C27: activate(v) and deactivate(v) are idempotent: when the operation just
\* called is called once more with the same video, the active reference and every
\* muted flag come out, all fades finished, as they would have without the second
\* call.
C27_AudioOpsIdempotent ==
  [][last'[1] = "repeat" => Outcome' = Outcome]_vars

\* deactivate(g1) was called twice while g1 was audible: two fade-outs of g1 run
C27_Witness ==
  /\ last = <<"repeat", "g1">>
  /\ audioOp.op = "deactivate"
  /\ fadeOuts["g1"] = 2
  /\ ~muted["g1"]
  /\ Outcome.muted["g1"]

\* the steps in which an Audio Controller operation or a frame of a fade can run
AudioControllerSteps ==
  {"toggle", "repeat", "audiohidden", "heroleave", "fadeinstep", "fadeinend",
   "fadeoutstep", "fadeoutend"}

\* C28: once the photos exist, only the Audio Controller (activate, deactivate,
\* toggle and the frames of their fades) changes a muted flag or the active
\* reference: loadVideo, unloadVideo, play, pause, eviction, the fetch
\* continuations, the photo state machine and the drag handlers leave both as they
\* are, and so does an observer report about a muted video.
C28_OnlyControllerWritesAudio ==
  [][( \/ last'[1] \notin AudioControllerSteps
       \/ last'[1] \in {"audiohidden", "heroleave"} /\ muted[last'[2]] ) =>
       (muted' = muted /\ activeVideo' = activeVideo)]_vars

\* p1 was put down by a mouseleave while its video was the audible one: the video
\* was not unloaded and stayed unmuted and active
C28_Witness ==
  /\ last = <<"mouseleave", "p1">>
  /\ state["p1"] = "normal"
  /\ ~muted["g1"]
  /\ activeVideo = "g1"
  /\ "g1" \in loadedVideos

\* C29: eviction precedes insertion: in the step that adds a video to loadedVideos
\* (the completion of its fetch), no other muted video is in loadedVideos.
C29_EvictionBeforeInsertion ==
  [][\A v \in Videos :
       (v \notin loadedVideos /\ v \in loadedVideos') =>
         \A u \in loadedVideos' \ {v} : ~muted'[u]]_vars

\* C30: every fetch of v that is in flight and was not aborted is the one whose
\* AbortController pendingFetches holds under v, so that a later loadVideo(v) or
\* unloadVideo(v) aborts it: no fetch of v is in flight without a handle, and at
\* most one fetch of v that was not aborted is in flight, whenever the
\* continuation of an aborted fetch of v runs.
C30_FetchHasHandle ==
  \A v \in Videos :
    /\ orphanFetches[v] = 0
    /\ LiveFetches(World, v) <= 1


\* C31: for every video that has a source, data-lazy-src is present exactly when
\* the video is not in loadedVideos.
C31_LazyIffNotLoaded ==
  \A v \in Videos : (lazySrc[v] # NoUrl) <=> (v \notin loadedVideos)

\* C32: a mouseleave or a dismissing mouseup that takes photo p from hover or
\* clicked to normal while its video is muted unloads the video in the same step:
\* afterwards it is not in loadedVideos, has no entry in pendingFetches and carries
\* data-lazy-src again; when the video is unmuted its load state is unchanged.
C32_NormalUnloadsMuted ==
  [][\A p \in VideoPhotos :
       ( /\ last' \in {<<"mouseleave", p>>, <<"mouseup", p>>}
         /\ state[p] \in {"hover", "clicked"}
         /\ state'[p] = "normal" ) =>
         IF muted[VideoOf(p)]
         THEN /\ VideoOf(p) \notin loadedVideos'
              /\ ~pendingFetches'[VideoOf(p)]
              /\ lazySrc'[VideoOf(p)] = UrlOf(VideoOf(p))
              /\ src'[VideoOf(p)] = "none"
         ELSE VideoState(p)' = VideoState(p)]_vars

\* p1 was dismissed by a click while the fetch of its muted video was in flight:
\* the fetch was aborted and the video is unloaded
C32_Witness ==
  /\ last = <<"mouseup", "p1">>
  /\ state["p1"] = "normal"
  /\ justDismissed["p1"]
  /\ muted["g1"]
  /\ abortedFetches["g1"] > 0
  /\ ~pendingFetches["g1"]
  /\ "g1" \notin loadedVideos
  /\ lazySrc["g1"] = UrlOf("g1")

\* C33: whenever audioController.activeVideo is not null, the video it refers to
\* is unmuted: no fade-out started earlier mutes a video that is the active
\* reference again.
C33_ActiveIsUnmuted ==
  activeVideo # NoVideo => ~muted[activeVideo]

\* C34: whenever a drag session is active, the photo that owns it is in clicked
\* state: no event takes the owner to normal or hover while the session is active.
C34_OwnerIsClicked ==
  dragState.active => (dragState.photo \in Photos /\ state[dragState.photo] = "clicked")

\* the mouseup of a session of p1 was stopped by its label or audio toggle, the
\* pointer then left p1: the session is still active and p1 still clicked
C34_Witness ==
  /\ dragState.active
  /\ dragState.photo = "p1"
  /\ ~button
  /\ over = NoPhoto
  /\ last = <<"mouseleave", "p1">>
  /\ state["p1"] = "clicked"

\* C35: the pause timer set when an unmuted hero video left the load margin never
\* pauses that video once it is back inside the margin: a timer that fires while
\* the latest heroPlaybackObserver entry of the video is an enter leaves a playing
\* video playing.
C35_TimerSparesReentered ==
  [][\A v \in HeroVideos :
       (last' = <<"pausetimer", v>> /\ inMargin[v] /\ ~paused[v]) => ~paused'[v]]_vars

\* C36: whenever the pointer is not over photo p and p owns no active drag
\* session, p is in normal state; a photo whose session ends while the pointer is
\* outside it does not stay clicked.
C36_OutsideIsNormal ==
  \A p \in Photos :
    (over # p /\ ~(dragState.active /\ dragState.photo = p)) => state[p] = "normal"

\* C37: while photo p owns the drag session, a pointer move changes nothing (no
\* position, no tentative position, dragState as it was) as long as no move of the
\* session, this one included, was farther than dragThreshold from the pointer-down
\* point; from the first such move on, every pointer move gives p the tentative
\* position of the pointer's displacement, viewport-constrained at clickedScale,
\* also when the pointer is back within dragThreshold; the mouseup of such a session
\* commits that position and leaves p clicked, not dismissed.
C37_ThresholdThenEveryMove ==
  [][\A p \in Photos :
       (dragState.active /\ dragState.photo = p) =>
         /\ last'[1] \in {"mousemove", "mousemovestopped"} =>
              IF sessionLog'.exceeded
              THEN /\ dragState'.hasDragged
                   /\ pos'[p].drag = sessionLog'.tentative
              ELSE pos' = pos /\ dragState' = dragState
         /\ (last' = <<"mouseup", p>> /\ sessionLog.exceeded) =>
              /\ state'[p] = "clicked"
              /\ ~justDismissed'[p]
              /\ <<pos'[p].currentX, pos'[p].currentY>> = sessionLog.tentative]_vars

\* C38: the mouseup that dismisses photo p marks it justDismissed; while p is
\* marked it is in normal state, and no event but a mouseleave of p or a mousedown
\* handled by p's listener takes the mark away or p out of normal state, a
\* mouseenter in particular; such a mousedown takes p to hover (it stays normal on
\* a mobile viewport), never to clicked, and starts no drag session; a mouseleave
\* of p takes the mark away.
C38_DismissedNeedsLeaveOrDown ==
  [][\A p \in Photos :
       /\ (last' = <<"mouseup", p>> /\ state[p] = "clicked" /\ state'[p] = "normal") =>
            justDismissed'[p]
       /\ justDismissed[p] =>
            /\ state[p] = "normal"
            /\ last' = <<"mousedown", p>> =>
                 /\ state'[p] = IF mobile THEN "normal" ELSE "hover"
                 /\ ~justDismissed'[p]
                 /\ dragState' = dragState
            /\ last' = <<"mouseleave", p>> => ~justDismissed'[p]
            /\ last' \notin {<<"mousedown", p>>, <<"mouseleave", p>>} =>
                 (justDismissed'[p] /\ state'[p] = "normal")]_vars

\* p1, dismissed by a click with the pointer still over it, took a mousedown and
\* went to hover: a mousedown takes a photo to hover in no other way
C38_Witness ==
  /\ last = <<"mousedown", "p1">>
  /\ over = "p1"
  /\ state["p1"] = "hover"
  /\ ~justDismissed["p1"]
  /\ ~dragState.active

\* C39: whenever no fade-out is in flight, at most one video is unmuted and an
\* unmuted video is the active reference; a video that is unmuted without being
\* the active reference (it was deactivated, or another video was activated in its
\* place) becomes muted in the end, the animation frames running.
C39_QuiescentOneUnmuted ==
  /\ []((\A v \in Videos : fadeOuts[v] = 0) =>
          /\ Cardinality({v \in Videos : ~muted[v]}) <= 1
          /\ \A v \in Videos : ~muted[v] => activeVideo = v)
  /\ \A v \in AudioObserved : (~muted[v] /\ activeVideo # v) ~> muted[v]

\* h1 was audible when g1 was activated in its place; every fade has run its last
\* frame: g1 alone is unmuted and is the active reference
C39_Witness ==
  /\ audioOp = [op |-> "activate", video |-> "g1", prev |-> "h1"]
  /\ \A v \in Videos : fadeOuts[v] = 0 /\ fadeIns[v] = 0
  /\ activeVideo = "g1"
  /\ ~muted["g1"]
  /\ muted["h1"]
  /\ last = <<"fadeoutend", "h1">>

=========================================================================
